---- MODULE Spec2Model ----
(***************************************************************************)
(* Model of the strategy detection pipeline of theme-browser-monorepo      *)
(* (scripts/02-detect-strategies.ts): evidence fetch with a file cache,    *)
(* the text and structure classifiers, the hint override, the bounded task *)
(* pool, patch computation, patch application and the persisted sources.   *)
(***************************************************************************)
EXTENDS Integers, Sequences, FiniteSets, TLC

\* ------------------------------------------------------------------------
\* Strings.  Repository identities and theme names are sequences of
\* one-character strings, so that toLowerCase, sort and localeCompare are
\* computed character by character.
\* ------------------------------------------------------------------------

NONE == "none"

\* String.prototype.toLowerCase on one character
LowerChar(c) ==
    CASE c = "A" -> "a"
      [] c = "B" -> "b"
      [] c = "C" -> "c"
      [] c = "D" -> "d"
      [] c = "K" -> "k"
      [] c = "R" -> "r"
      [] OTHER -> c

toLowerCase(s) == [k \in 1..Len(s) |-> LowerChar(s[k])]

Chars == {"/", "_", "a", "b", "c", "d", "o", "A", "B", "C"}

\* UTF-16 code unit of a character (the order of Array.prototype.sort()
\* without a comparator)
CodeUnit ==
    [c \in Chars |->
        CASE c = "/" -> 47
          [] c = "A" -> 65
          [] c = "B" -> 66
          [] c = "C" -> 67
          [] c = "_" -> 95
          [] c = "a" -> 97
          [] c = "b" -> 98
          [] c = "c" -> 99
          [] c = "d" -> 100
          [] c = "o" -> 111]

\* Collation rank of a character for String.prototype.localeCompare:
\* punctuation before letters, a lower-case letter before its capital
CollRank ==
    [c \in Chars |->
        CASE c = "_" -> 1
          [] c = "/" -> 2
          [] c = "a" -> 10
          [] c = "A" -> 11
          [] c = "b" -> 12
          [] c = "B" -> 13
          [] c = "c" -> 14
          [] c = "C" -> 15
          [] c = "d" -> 16
          [] c = "o" -> 17]

Max(a, b) == IF a >= b THEN a ELSE b

Min(a, b) == IF a <= b THEN a ELSE b

\* lexicographic three-way comparison of two strings under a character rank
SeqCompare(a, b, rank) ==
    LET n == Min(Len(a), Len(b))
        diffs == {k \in 1..n : rank[a[k]] # rank[b[k]]}
        first == CHOOSE k \in diffs : \A j \in diffs : k <= j
    IN IF diffs = {}
       THEN (IF Len(a) < Len(b) THEN -1 ELSE IF Len(a) > Len(b) THEN 1 ELSE 0)
       ELSE IF rank[a[first]] < rank[b[first]] THEN -1 ELSE 1

localeCompare(a, b) == SeqCompare(a, b, CollRank)

defaultCompare(a, b) == SeqCompare(a, b, CodeUnit)

\* Array.prototype.sort(cmp): a stable sort.  cmp[<<j, k>>] is the comparator's
\* value on s[j] and s[k]; element k moves behind every element that compares
\* smaller and every earlier element that compares equal.
StableSort(s, cmp) ==
    LET before(k) == {j \in 1..Len(s) :
                         \/ cmp[<<j, k>>] < 0
                         \/ cmp[<<j, k>>] = 0 /\ j < k}
    IN [p \in 1..Len(s) |->
           s[CHOOSE k \in 1..Len(s) : Cardinality(before(k)) = p - 1]]

Pairs(s) == (1..Len(s)) \X (1..Len(s))

Range(s) == {s[k] : k \in 1..Len(s)}

\* ------------------------------------------------------------------------
\* Strategy types and signals
\* ------------------------------------------------------------------------

StrategyTypes == {"setup", "load", "colorscheme", "file", "unknown"}

\* Object.entries order of the tally record
TallyOrder == <<"setup", "load", "colorscheme", "file", "unknown">>

Signal(strategy, score, reason) ==
    [strategy |-> strategy, score |-> score, reason |-> reason]

\* tally[s] = sum of the scores of the signals for strategy s
RECURSIVE Tally(_, _)
Tally(signals, s) ==
    IF signals = <<>> THEN 0
    ELSE (IF Head(signals).strategy = s THEN Head(signals).score ELSE 0)
         + Tally(Tail(signals), s)

\* ------------------------------------------------------------------------
\* README text.  A text is the set of the snippets it contains; each snippet
\* is a concrete phrase and the regular expressions of detectFromText are
\* evaluated on these phrases:
\*   reqload     require("foo").load()
\*   dotload     theme.load()
\*   require     require("foo")
\*   reqsetup    require("foo").setup()
\*   setupblock  setup({ style = "x" })
\*   colon       :colorscheme foo
\*   vimcmd      vim.cmd("colorscheme foo")
\*   vimcmdfn    vim.cmd.colorscheme("foo")
\*   csword      "a colorscheme."
\*   letg        let g:foo_style = 1
\*   bg          background = "dark"
\*   order       before loading
\* ------------------------------------------------------------------------

Snippets == {"reqload", "dotload", "require", "reqsetup", "setupblock",
             "colon", "vimcmd", "vimcmdfn", "csword", "letg", "bg", "order"}

\* /require\(/i
hasRequire(text) == text \cap {"reqload", "reqsetup", "require"} # {}

\* /colorscheme/i
hasColorschemeWord(text) == text \cap {"colon", "vimcmd", "vimcmdfn", "csword"} # {}

\* /\.load\s*\(\s*{?/i
hasDotLoad(text) == text \cap {"reqload", "dotload"} # {}

\* /:?colorscheme\s+[a-z0-9_.-]+/i
hasColorschemeCommand(text) == text \cap {"colon", "vimcmd"} # {}

\* the signals pushed by the ten pattern rules, in source order
textSignals(text) ==
       (IF "reqload" \in text THEN <<Signal("load", 8, "require.load")>> ELSE <<>>)
    \o (IF hasDotLoad(text) /\ hasRequire(text)
        THEN <<Signal("load", 2, "dot-load")>> ELSE <<>>)
    \o (IF "reqsetup" \in text THEN <<Signal("setup", 6, "require.setup")>> ELSE <<>>)
    \o (IF "setupblock" \in text THEN <<Signal("setup", 2, "setup-block")>> ELSE <<>>)
    \o (IF hasColorschemeCommand(text)
        THEN <<Signal("colorscheme", 4, ":colorscheme")>> ELSE <<>>)
    \o (IF "vimcmd" \in text THEN <<Signal("colorscheme", 4, "vim.cmd")>> ELSE <<>>)
    \o (IF "vimcmdfn" \in text
        THEN <<Signal("colorscheme", 4, "vim.cmd.colorscheme")>> ELSE <<>>)
    \o (IF "letg" \in text /\ ~hasRequire(text)
        THEN <<Signal("colorscheme", 3, "vim.g")>> ELSE <<>>)
    \o (IF "bg" \in text /\ hasColorschemeWord(text)
        THEN <<Signal("file", 2, "background")>> ELSE <<>>)
    \o (IF "order" \in text THEN <<Signal("file", 2, "init-order")>> ELSE <<>>)

\* the tally after the two tie-break adjustments
adjustedTally(signals) ==
    LET raw == [s \in StrategyTypes |-> Tally(signals, s)]
        t1 == IF raw["load"] > 0 /\ raw["setup"] > 0 /\ raw["load"] >= raw["setup"]
              THEN [raw EXCEPT !["load"] = @ + 2] ELSE raw
    IN IF t1["setup"] > 0 /\ t1["colorscheme"] > 0
       THEN [t1 EXCEPT !["setup"] = @ + 3] ELSE t1

\* Object.entries(tally) as [strategy, value] pairs, in key order
tallyEntries(tally) == [k \in 1..Len(TallyOrder) |-> <<TallyOrder[k], tally[TallyOrder[k]]>>]

\* the comparator (a, b) => b[1] - a[1]
byValueDesc(a, b) == b[2] - a[2]

isKnownEntry(e) == e[1] # "unknown"

\* a confidence is kept in units of 1/10000.  FloatTenths(a, b) is the IEEE
\* double a/10 + b/10: five sums are not the nearest double of the decimal.
FloatTenths(a, b) ==
    CASE <<a, b>> = <<2, 1>> -> 3001
      [] <<a, b>> = <<4, 2>> -> 6001
      [] <<a, b>> = <<6, 3>> -> 8999
      [] <<a, b>> = <<7, 1>> -> 7999
      [] <<a, b>> = <<7, 2>> -> 8999
      [] OTHER -> 1000 * (a + b)

ONE == 10000

ESCALATE_THRESHOLD == 9000

STRUCTURE_CONFIDENCE == 5000

\* Number(x.toFixed(2)), in hundredths
toFixed2(conf) == (conf + 50) \div 100

detectFromText(text) ==
    LET signals == textSignals(text)
        tally == adjustedTally(signals)
        known == SelectSeq(tallyEntries(tally), isKnownEntry)
        ranked == StableSort(known, [jk \in Pairs(known) |-> byValueDesc(known[jk[1]], known[jk[2]])])
        top == ranked[1]
        second == ranked[2]
        detected == IF top[2] = 0 THEN "unknown" ELSE top[1]
        delta == Max(0, top[2] - second[2])
        confidence == IF detected = "unknown" THEN 0
                      ELSE Min(ONE, FloatTenths(top[2], delta))
    IN [detected |-> detected,
        confidence |-> confidence,
        signals |-> signals,
        needsSourceInspection |-> (detected = "unknown" \/ confidence < ESCALATE_THRESHOLD)]

\* ------------------------------------------------------------------------
\* Repository tree.  A tree is the set of the blob paths it contains:
\*   luamod     lua/foo/init.lua      colorslua  colors/foo.lua
\*   colorsvim  colors/foo.vim        pluginlua  plugin/foo.lua
\* ------------------------------------------------------------------------

TreePaths == {"luamod", "colorslua", "colorsvim", "pluginlua"}

structureSignals(paths) ==
    LET hasLuaModule == "luamod" \in paths
        hasColorsLua == "colorslua" \in paths
        hasColorsVim == "colorsvim" \in paths
        hasPluginDir == "pluginlua" \in paths
        hasColorsDir == hasColorsLua \/ hasColorsVim
    IN    (IF hasColorsVim /\ ~hasLuaModule /\ ~hasColorsLua
           THEN <<Signal("colorscheme", 6, "colors-vim-only")>> ELSE <<>>)
       \o (IF hasLuaModule /\ hasColorsLua
           THEN <<Signal("setup", 4, "module+colors-lua")>> ELSE <<>>)
       \o (IF hasColorsLua /\ ~hasLuaModule
           THEN <<Signal("colorscheme", 5, "colors-lua-only")>> ELSE <<>>)
       \o (IF hasLuaModule /\ ~hasColorsDir
           THEN <<Signal("setup", 2, "module-only")>> ELSE <<>>)
       \o (IF hasPluginDir /\ hasLuaModule
           THEN <<Signal("load", 2, "module+plugin")>> ELSE <<>>)
       \o (IF hasColorsVim /\ hasLuaModule /\ ~hasColorsLua
           THEN <<Signal("colorscheme", 4, "colors-vim+module")>> ELSE <<>>)

\* inspectSource returning its winner with confidence 1.0
inspectTree_certain(paths) ==
    LET signals == structureSignals(paths)
        tally == [s \in StrategyTypes |-> Tally(signals, s)]
        entries == tallyEntries(tally)
        best == StableSort(entries, [jk \in Pairs(entries) |-> byValueDesc(entries[jk[1]], entries[jk[2]])])[1]
    IN IF signals = <<>>
       THEN [hasResult |-> FALSE, detected |-> NONE, confidence |-> 0, signals |-> <<>>]
       ELSE [hasResult |-> TRUE, detected |-> best[1], confidence |-> ONE, signals |-> signals]

\* the result of inspectSource for an already fetched tree; hasResult is FALSE
\* for the empty object returned when no signal fired
inspectTree(paths) ==
    LET signals == structureSignals(paths)
        tally == [s \in StrategyTypes |-> Tally(signals, s)]
        entries == tallyEntries(tally)
        best == StableSort(entries, [jk \in Pairs(entries) |-> byValueDesc(entries[jk[1]], entries[jk[2]])])[1]
    IN IF signals = <<>>
       THEN [hasResult |-> FALSE, detected |-> NONE, confidence |-> 0, signals |-> <<>>]
       ELSE [hasResult |-> TRUE, detected |-> best[1],
             confidence |-> STRUCTURE_CONFIDENCE, signals |-> signals]

\* detectFromText and inspectSource are pure: their results, computed once for
\* every text and every tree (f @@ <<>> is f, held as an explicit function)
detectFromTextOf == [text \in SUBSET Snippets |-> detectFromText(text)] @@ <<>>

inspectSourceOf == [paths \in SUBSET TreePaths |-> inspectTree(paths)] @@ <<>>

\* detectRepo, lines 421-424: the structure result takes the place of the text
\* result; src.detected is truthy unless inspectSource returned {}
replaces(det, src) ==
    \/ det.detected = "unknown" /\ src.hasResult
    \/ det.confidence < ESCALATE_THRESHOLD /\ src.hasResult /\ src.detected # "unknown"

\* the merge with "signals: src.signals" in the replacing branch
mergeStructure_structureSignalsOnly(det, src) ==
    IF replaces(det, src)
    THEN [detected |-> src.detected,
          confidence |-> Max(det.confidence, src.confidence),
          signals |-> src.signals,
          needsSourceInspection |-> FALSE]
    ELSE [det EXCEPT !.signals = det.signals \o src.signals]

\* detectRepo, lines 417-434: merge the structure result into the text result
mergeStructure(det, src) ==
    LET mergedSignals == det.signals \o src.signals
    IN IF replaces(det, src)
       THEN [detected |-> src.detected,
             confidence |-> Max(det.confidence, src.confidence),
             signals |-> mergedSignals,
             needsSourceInspection |-> FALSE]
       ELSE [det EXCEPT !.signals = mergedSignals]

\* the manual hint without the confidence of 1.0
applyHint_keepsConfidence(det, hasHint, hint) ==
    IF hasHint
    THEN [detected |-> hint,
          confidence |-> det.confidence,
          signals |-> det.signals \o <<Signal(hint, 10, "Manual hint override")>>,
          needsSourceInspection |-> FALSE]
    ELSE det

\* detectRepo, lines 436-443: the manual hint
applyHint(det, hasHint, hint) ==
    IF hasHint
    THEN [detected |-> hint,
          confidence |-> ONE,
          signals |-> det.signals \o <<Signal(hint, 10, "Manual hint override")>>,
          needsSourceInspection |-> FALSE]
    ELSE det

\* ------------------------------------------------------------------------
\* Theme entries, the sources (the store) and the rows
\* ------------------------------------------------------------------------

\* an absent repo / name (undefined and "" are both falsy in the source)
NOSTR == <<>>

\* a ThemeEntry.  hasMeta / hasStrategy say whether entry.meta and
\* entry.meta.strategy exist; type is NONE when meta.strategy.type is absent;
\* module stands for the other fields of the strategy object.
Entry(name, repo, colorscheme, hasMeta, hasStrategy, type, module) ==
    [name |-> name, repo |-> repo, colorscheme |-> colorscheme,
     hasMeta |-> hasMeta, hasStrategy |-> hasStrategy, type |-> type, module |-> module]

\* (a, b) => (a.name || "").toLowerCase().localeCompare((b.name || "").toLowerCase())
byName(a, b) == localeCompare(toLowerCase(a.name), toLowerCase(b.name))

\* themes.sort(byName), allOverrides.sort(byName)
sortByName(s) ==
    CHOOSE sorted \in {StableSort(v, [jk \in Pairs(v) |-> byName(v[jk[1]], v[jk[2]])])
                           : v \in {s}} : TRUE

\* (a, b) => a.repo.toLowerCase().localeCompare(b.repo.toLowerCase())
byRepo(a, b) == localeCompare(toLowerCase(a.repo), toLowerCase(b.repo))

findCurrentStrategy(repo, src) ==
    LET hits == {k \in 1..Len(src.overrides) : src.overrides[k].repo = repo}
        entry == src.overrides[CHOOSE k \in hits : \A j \in hits : k <= j]
    IN IF hits = {} THEN "missing"
       ELSE IF entry.type = NONE THEN "missing" ELSE entry.type

\* [...new Set(repoThemes.map((t) => t.name))], repoThemes from buildRepoIndex
themeNamesOf(repo, ths) ==
    LET mine == SelectSeq(ths, LAMBDA t : t.repo = repo)
        firstAt(k) == \A j \in 1..(k - 1) : mine[j].name # mine[k].name
        keep == {k \in 1..Len(mine) : firstAt(k)}
    IN [p \in 1..Cardinality(keep) |->
           mine[CHOOSE k \in keep : Cardinality({j \in keep : j < k}) = p - 1].name]

rowStatus(current, detected) ==
    IF current = "missing" THEN "missing-meta"
    ELSE IF current = detected THEN "match" ELSE "mismatch"

\* detectRepo, lines 445-461: the row of a classification that did not throw
resultRow(repo, ths, src, det) ==
    LET current == findCurrentStrategy(repo, src)
    IN [repo |-> repo,
        themeNames |-> themeNamesOf(repo, ths),
        currentStrategy |-> current,
        detectedStrategy |-> det.detected,
        confidence |-> toFixed2(det.confidence),
        status |-> rowStatus(current, det.detected),
        signals |-> det.signals,
        error |-> NONE]

\* detectRepo, lines 462-473: the row of a classification that threw
errorRow(repo, ths, src, message) ==
    [repo |-> repo,
     themeNames |-> themeNamesOf(repo, ths),
     currentStrategy |-> findCurrentStrategy(repo, src),
     detectedStrategy |-> "unknown",
     confidence |-> 0,
     status |-> "error",
     signals |-> <<>>,
     error |-> message]

\* ------------------------------------------------------------------------
\* Patch computation and application
\* ------------------------------------------------------------------------

\* the apply threshold of buildPatch, in hundredths
APPLY_THRESHOLD == 90

\* the threshold of the superseded revision (verify-themes.ts buildPatchProposal)
SUPERSEDED_THRESHOLD == 70

patchEntry(r) == [repo |-> r.repo, strategy |-> r.detectedStrategy, confidence |-> r.confidence]

\* the filter of buildPatch without its confidence test
patchable_anyConfidence(r, threshold) ==
    /\ r.status = "mismatch" \/ r.status = "missing-meta"
    /\ r.detectedStrategy # "unknown"

patchable(r, threshold) ==
    /\ r.status = "mismatch" \/ r.status = "missing-meta"
    /\ r.detectedStrategy # "unknown"
    /\ r.confidence >= threshold

mapPatch(rs) == [k \in 1..Len(rs) |-> patchEntry(rs[k])]

buildPatch_superseded(rowSeq) ==
    mapPatch(SelectSeq(rowSeq, LAMBDA r : patchable(r, SUPERSEDED_THRESHOLD)))

buildPatch(rowSeq) ==
    mapPatch(SelectSeq(rowSeq, LAMBDA r : patchable(r, APPLY_THRESHOLD)))

\* new Map(patch.map((p) => [p.repo, p.strategy])).get(repo): the last entry wins
patchMapGet(pat, repo) ==
    LET hits == {k \in 1..Len(pat) : pat[k].repo = repo}
    IN IF hits = {} THEN NONE
       ELSE pat[CHOOSE k \in hits : \A j \in hits : k >= j].strategy

\* updateEntry with "strategy = { type: detected }" in place of the spread
updateEntry_replacesStrategy(entry, pat) ==
    LET detected == patchMapGet(pat, entry.repo)
    IN IF entry.repo = NOSTR THEN entry
       ELSE IF detected = NONE THEN entry
       ELSE [entry EXCEPT !.hasMeta = TRUE, !.hasStrategy = TRUE, !.type = detected,
                          !.module = NONE]

\* applyPatch, lines 528-544: one existing entry
updateEntry(entry, pat) ==
    LET detected == patchMapGet(pat, entry.repo)
    IN IF entry.repo = NOSTR THEN entry
       ELSE IF detected = NONE THEN entry
       ELSE [entry EXCEPT !.hasMeta = TRUE, !.hasStrategy = TRUE, !.type = detected]

inInventory(ths, repo) == \E k \in 1..Len(ths) : ths[k].repo = repo

firstTheme(ths, repo) ==
    ths[CHOOSE k \in 1..Len(ths) :
              /\ ths[k].repo = repo
              /\ \A j \in 1..(k - 1) : ths[j].repo # repo]

\* applyPatch, lines 546-563 without the guard "if (!theme) continue"
newEntries_fabricating(src, pat, ths) ==
    LET existingRepos == {e.repo : e \in Range(src.overrides)} \ {NOSTR}
        fresh == SelectSeq(pat, LAMBDA p : p.repo \notin existingRepos)
    IN [k \in 1..Len(fresh) |->
           IF inInventory(ths, fresh[k].repo)
           THEN Entry(firstTheme(ths, fresh[k].repo).name, fresh[k].repo,
                      firstTheme(ths, fresh[k].repo).colorscheme,
                      TRUE, TRUE, fresh[k].strategy, NONE)
           ELSE Entry(NOSTR, fresh[k].repo, NONE, TRUE, TRUE, fresh[k].strategy, NONE)]

\* newEntries without the guard "if (existingRepos.has(p.repo)) continue"
newEntries_noExistingCheck(src, pat, ths) ==
    LET fresh == SelectSeq(pat, LAMBDA p : inInventory(ths, p.repo))
    IN [k \in 1..Len(fresh) |->
           Entry(firstTheme(ths, fresh[k].repo).name, fresh[k].repo,
                 firstTheme(ths, fresh[k].repo).colorscheme,
                 TRUE, TRUE, fresh[k].strategy, NONE)]

\* applyPatch, lines 546-563: the synthesized entries
newEntries(src, pat, ths) ==
    LET existingRepos == {e.repo : e \in Range(src.overrides)} \ {NOSTR}
        fresh == SelectSeq(pat, LAMBDA p : p.repo \notin existingRepos
                                             /\ inInventory(ths, p.repo))
    IN [k \in 1..Len(fresh) |->
           Entry(firstTheme(ths, fresh[k].repo).name, fresh[k].repo,
                 firstTheme(ths, fresh[k].repo).colorscheme,
                 TRUE, TRUE, fresh[k].strategy, NONE)]

applyPatch(src, pat, ths) ==
    LET updated == [k \in 1..Len(src.overrides) |-> updateEntry(src.overrides[k], pat)]
        allOverrides == updated \o newEntries(src, pat, ths)
    IN [src EXCEPT !.overrides = sortByName(allOverrides)]

\* ------------------------------------------------------------------------
\* Evidence fetch and the file cache
\* ------------------------------------------------------------------------

\* repo.replace("/", "__"): only the first "/" is replaced
slugRepo(repo) ==
    LET hits == {k \in 1..Len(repo) : repo[k] = "/"}
        k == CHOOSE h \in hits : \A j \in hits : h <= j
    IN IF hits = {} THEN repo
       ELSE SubSeq(repo, 1, k - 1) \o <<"_", "_">> \o SubSeq(repo, k + 1, Len(repo))

\* writeFileSync(cpath, ...): the cache holds one file per path
cachePut(entries, slug, entry) == {c \in entries : c.slug # slug} \cup {entry}

\* a fetch that never reads the cache
cacheReads_never(o) == FALSE

\* fetchReadme line 227, fetchRepoTree line 244: if (!opts.noCache && existsSync(cpath))
cacheReads(o) == ~o.noCache

\* a fetch that writes the cache in every mode
cacheWrites_always(o) == TRUE

\* fetchReadme line 235, fetchRepoTree line 253: if (!opts.noCache)
cacheWrites(o) == ~o.noCache

\* a fetch that returns without writing what it fetched
cacheStore_skipped(entries, slug, entry) == entries

\* writeFileSync(cpath, ...) / writeJsonFile(cpath, tree)
cacheStore(entries, slug, entry) == cachePut(entries, slug, entry)

\* fetchReadme.  resp is the answer of "gh api repos/<repo>/readme" should it
\* be asked: kind "ok" with the text, "nocontent", or "fail" (gh exits non-zero)
fetchReadme(repo, o, c, resp) ==
    LET slug == slugRepo(repo)
        hit == {e \in c.readme : e.slug = slug}
    IN IF cacheReads(o) /\ hit # {}
       THEN [threw |-> NONE, text |-> (CHOOSE e \in hit : TRUE).text, cache |-> c, asked |-> FALSE]
       ELSE IF resp.kind = "fail"
       THEN [threw |-> "gh failed", text |-> {}, cache |-> c, asked |-> TRUE]
       ELSE IF resp.kind = "nocontent"
       THEN [threw |-> "README content missing", text |-> {}, cache |-> c, asked |-> TRUE]
       ELSE [threw |-> NONE, text |-> resp.text,
             cache |-> IF cacheWrites(o)
                       THEN [c EXCEPT !.readme = cacheStore(@, slug, [slug |-> slug,
                                                                      text |-> resp.text])]
                       ELSE c,
             asked |-> TRUE]

\* fetchRepoTree.  A cached tree file that is not valid JSON (ok = FALSE)
\* makes readJsonFile throw.
fetchRepoTree(repo, o, c, resp) ==
    LET slug == slugRepo(repo)
        hit == {e \in c.tree : e.slug = slug}
        cached == CHOOSE e \in hit : TRUE
    IN IF cacheReads(o) /\ hit # {}
       THEN IF cached.ok
            THEN [threw |-> NONE, files |-> cached.files, cache |-> c, asked |-> FALSE]
            ELSE [threw |-> "Unexpected token in JSON", files |-> {}, cache |-> c, asked |-> FALSE]
       ELSE IF resp.kind = "fail"
       THEN [threw |-> "gh failed", files |-> {}, cache |-> c, asked |-> TRUE]
       ELSE [threw |-> NONE, files |-> resp.files,
             cache |-> IF cacheWrites(o)
                       THEN [c EXCEPT !.tree = cacheStore(@, slug, [slug |-> slug, ok |-> TRUE,
                                                                    files |-> resp.files])]
                       ELSE c,
             asked |-> TRUE]

\* new Map(hints.map((h) => [h.repo, h.strategy])).has(repo)
hintsMapHas(hs, repo) == \E k \in 1..Len(hs) : hs[k].repo = repo

\* hintsMap.get(repo): the last hint of a repo wins
hintsMapGet(hs, repo) ==
    LET hits == {k \in 1..Len(hs) : hs[k].repo = repo}
    IN IF hits = {} THEN NONE
       ELSE hs[CHOOSE k \in hits : \A j \in hits : k >= j].strategy

\* one call of a fetch function: asked tells whether gh was run
Call(fn, asked) == [fn |-> fn, asked |-> asked]

\* detectRepo without its catch block: the exception leaves the function
caught_rethrows(repo, ths, src, message, c, calls) ==
    [row |-> errorRow(repo, ths, src, message), cache |-> c, threw |-> message,
     escaped |-> TRUE, calls |-> calls]

\* detectRepo, lines 462-473: the catch block returns the error row
caught(repo, ths, src, message, c, calls) ==
    [row |-> errorRow(repo, ths, src, message), cache |-> c, threw |-> message,
     escaped |-> FALSE, calls |-> calls]

\* detectRepo, lines 436-461: the hint, then the row
completed(repo, ths, src, hs, det, c, calls) ==
    CHOOSE outcome \in {[row |-> resultRow(repo, ths, src, hinted), cache |-> c,
                          threw |-> NONE, escaped |-> FALSE, calls |-> calls] :
                           hinted \in {applyHint(det, hintsMapHas(hs, repo),
                                                  hintsMapGet(hs, repo))}} : TRUE

\* detectRepo, lines 417-434, with t the outcome of fetchRepoTree
afterTree(repo, ths, src, hs, det, t, calls) ==
    IF t.threw # NONE THEN caught(repo, ths, src, t.threw, t.cache, calls)
    ELSE CHOOSE outcome \in {completed(repo, ths, src, hs, merged, t.cache, calls) :
                                merged \in {mergeStructure(det, inspectSourceOf[t.files])}} : TRUE

\* the source inspection run for every repository
escalates_always(det) == TRUE

\* detectRepo, line 417: if (det.needsSourceInspection)
escalates(det) == det.needsSourceInspection

\* detectRepo, lines 415-417, with det the result of detectFromText
afterText(repo, ths, src, o, hs, resp, r, det, calls) ==
    IF escalates(det)
    THEN CHOOSE outcome \in {afterTree(repo, ths, src, hs, det, t,
                                        Append(calls, Call("fetchRepoTree", t.asked))) :
                                t \in {fetchRepoTree(repo, o, r.cache, resp.tree)}} : TRUE
    ELSE completed(repo, ths, src, hs, det, r.cache, calls)

\* detectRepo, lines 414-415, with r the outcome of fetchReadme
afterReadme(repo, ths, src, o, hs, resp, r, calls) ==
    IF r.threw # NONE THEN caught(repo, ths, src, r.threw, r.cache, calls)
    ELSE CHOOSE outcome \in {afterText(repo, ths, src, o, hs, resp, r, det, calls) :
                                det \in {detectFromTextOf[r.text]}} : TRUE

\* detectRepo: the row of one repository, the cache it leaves, the message of
\* the exception it caught (NONE if none) and the fetch calls it made
detectRepo(repo, ths, src, o, hs, c, resp) ==
    CHOOSE outcome \in {afterReadme(repo, ths, src, o, hs, resp, r,
                                    <<Call("fetchReadme", r.asked)>>) :
                           r \in {fetchReadme(repo, o, c, resp.readme)}} : TRUE

\* ------------------------------------------------------------------------
\* The persisted sources
\* ------------------------------------------------------------------------

FileNames == {"overrides", "setup", "load", "colorscheme", "builtin"}

\* a file of the sources directory; overrides.json keeps its entries in
\* themes and its builtin list in builtin
AbsentFile == [exists |-> FALSE, strategy |-> NONE, count |-> 0, themes |-> <<>>, builtin |-> <<>>]

NoFiles == [f \in FileNames |-> AbsentFile]

themesOfFile(fs, f) == IF fs[f].exists THEN fs[f].themes ELSE <<>>

loadSources(fs) ==
    IF fs["overrides"].exists
    THEN [overrides |-> fs["overrides"].themes, builtin |-> fs["overrides"].builtin]
    ELSE [overrides |-> themesOfFile(fs, "setup") \o themesOfFile(fs, "load")
                        \o themesOfFile(fs, "colorscheme"),
          builtin |-> themesOfFile(fs, "builtin")]

\* Object.entries(byStrategy) order
SaveOrder == <<"setup", "load", "colorscheme", "builtin">>

\* saveSources, lines 643-657: the entries of one strategy file
byStrategy(src, strategy) ==
    IF strategy = "builtin" THEN src.builtin
    ELSE IF strategy = "colorscheme"
    THEN SelectSeq(src.overrides, LAMBDA t : t.type \notin {"setup", "load"})
    ELSE SelectSeq(src.overrides, LAMBDA t : t.type = strategy)

\* saveSources, lines 659-670, with every strategy file written, also an empty one
saveStrategyFile_writesEmpty(fs, src, strategy) ==
    LET ths == byStrategy(src, strategy)
    IN [fs EXCEPT ![strategy] = [exists |-> TRUE, strategy |-> strategy, count |-> Len(ths),
                                 themes |-> sortByName(ths), builtin |-> <<>>]]

\* saveSources, lines 659-670: one pass of the loop over the strategy files
saveStrategyFile(fs, src, strategy) ==
    LET ths == byStrategy(src, strategy)
    IN IF Len(ths) = 0 THEN fs
       ELSE [fs EXCEPT ![strategy] = [exists |-> TRUE, strategy |-> strategy, count |-> Len(ths),
                                      themes |-> sortByName(ths), builtin |-> <<>>]]

\* the sources directory after a saveSources that ran to its end
saveSources(fs, src) ==
    saveStrategyFile(saveStrategyFile(saveStrategyFile(saveStrategyFile(
        fs, src, SaveOrder[1]), src, SaveOrder[2]), src, SaveOrder[3]), src, SaveOrder[4])

\* ------------------------------------------------------------------------
\* Repository selection and the task pool
\* ------------------------------------------------------------------------

\* [...buildRepoIndex(themes).keys()]: the repos in order of first occurrence
repoIndexKeys(ths) ==
    LET firsts == {k \in 1..Len(ths) :
                      /\ ths[k].repo # NOSTR
                      /\ \A j \in 1..(k - 1) : ths[j].repo # ths[k].repo}
    IN [p \in 1..Cardinality(firsts) |->
           ths[CHOOSE k \in firsts : Cardinality({j \in firsts : j < k}) = p - 1].repo]

\* keys.sort(): code unit order
selectRepos(ths) ==
    LET keys == repoIndexKeys(ths)
    IN StableSort(keys, [jk \in Pairs(keys) |-> defaultCompare(keys[jk[1]], keys[jk[2]])])

\* rows.sort((a, b) => a.repo.toLowerCase().localeCompare(b.repo.toLowerCase()))
sortByRepo(s) ==
    CHOOSE sorted \in {StableSort(v, [jk \in Pairs(v) |-> byRepo(v[jk[1]], v[jk[2]])])
                           : v \in {s}} : TRUE

\* the concurrency passed to limit by main
CONCURRENCY == 6

\* the while loop without the test "active < n"
whileStarts_unbounded(activeNow, started, n) == n - started

\* limit, line 490: the number of passes of
\* "while (active < n && i < items.length)" when next() is called
whileStarts(activeNow, started, n) == Max(0, Min(CONCURRENCY - activeNow, n - started))

\* limit resolving while one task is still to settle
limitResolves_early(doneCount, n) == doneCount + 1 >= n

\* limit: "if (done === items.length) return resolve(out)"
limitResolves(doneCount, n) == doneCount = n

\* main saving whatever the flag
shouldApply_always(o) == TRUE

\* main: "if (opts.apply)"
shouldApply(o) == o.apply

\* limit, lines 490-504: the while loop of next() calls fn(items[idx]) for one
\* item after the other; detectRepo is synchronous, so each call runs to its
\* end, and sees the cache the calls before it left
runTasks(items, ths, src, o, hs, c, answers) ==
    LET st[j \in 0..Len(items)] ==
            IF j = 0 THEN [row |-> NONE, cache |-> c, threw |-> NONE, escaped |-> FALSE,
                              calls |-> <<>>]
            ELSE CHOOSE outcome \in {detectRepo(items[j], ths, src, o, hs, prev.cache,
                                                answers[items[j]]) : prev \in {st[j - 1]}} : TRUE
    IN CHOOSE b \in {[cache |-> all[Len(items)].cache,
                      outcomes |-> [j \in 1..Len(items) |-> all[j]]] :
                        all \in {[j \in 0..Len(items) |-> st[j]]}} : TRUE

\* const idx = ++i: the slot after the task's own
outSlot_afterIncrement(idx, slots) == idx + 1

\* out.push(res): the slot after the ones written so far
outSlot_push(idx, slots) == Cardinality(slots) + 1

\* limit, line 495: out[idx] = res
outSlot(idx, slots) == idx

\* the rows of the written slots of out, in index order
outArray(slots) ==
    LET idxs == {e.idx : e \in slots}
    IN [p \in 1..Cardinality(idxs) |->
           (CHOOSE e \in slots : Cardinality({j \in idxs : j < e.idx}) = p - 1).row]

\* patch.sort((a, b) => a.repo.toLowerCase().localeCompare(b.repo.toLowerCase()))
sortedPatch(rowSeq) == sortByRepo(buildPatch(rowSeq))

\* ------------------------------------------------------------------------
\* State
\* ------------------------------------------------------------------------

VARIABLES
    pc,           \* position of main / of the function being run
    themes,       \* the theme inventory (index.json)
    hints,        \* hints.json: sequence of [repo, strategy]
    files,        \* the persisted sources directory
    cache,        \* the on-disk evidence cache
    opts,         \* CliOptions
    gh,           \* what GitHub answers for each repository: README and tree
    cache0,       \* the evidence cache when the run started
    sources,      \* the SourcesFile loaded by loadSources
    repos,        \* the selected repositories, in task order
    results,      \* limit: value of the promise of each started task
    phase,        \* limit: progress of each task's promise chain
    out,          \* limit: the out array, as the set of its written slots
    i,            \* limit: number of items started
    active,       \* limit: tasks in flight
    done,         \* limit: tasks settled
    rows,         \* the detection rows (detection.json once sorted)
    patch,        \* the computed patch
    nextSources,  \* the result of applyPatch
    again,        \* the result of applying the patch to nextSources
    savePos,      \* saveSources: index of the next strategy file
    prevFiles,    \* the sources directory when saveSources was entered
    exitCode,     \* process exit code, NONE while running
    logged,       \* the messages logged at level error
    firstPatch,   \* the patch of the first run, once a second run started
    run,          \* number of the current run
    snap          \* the persisted sources after the first run

vars == <<pc, themes, hints, files, cache, opts, gh, cache0, sources, repos, results, phase,
          out, i, active, done, rows, patch, nextSources, again, savePos,
          prevFiles, exitCode, logged, firstPatch, run, snap>>

poolVars == <<repos, results, phase, out, i, active, done>>

inputVars == <<themes, hints, opts, gh, cache0>>

\* ------------------------------------------------------------------------
\* Bounds and input universes
\* ------------------------------------------------------------------------

MaxRows == 2

MaxPatch == 2

MaxStore == 2

MaxThemes == 2

RepoA == <<"o", "/", "a">>

RepoB == <<"o", "/", "B">>

RepoC == <<"o", "/", "c">>

\* differs from RepoB by case only
RepoBLower == <<"o", "/", "b">>

RepoUniverse == {RepoA, RepoB, RepoC}

\* the strings of a set in localeCompare order
SortedSeqOf(S) ==
    LET any == CHOOSE q \in [1..Cardinality(S) -> S] : Range(q) = S
    IN StableSort(any, [jk \in Pairs(any) |-> localeCompare(toLowerCase(any[jk[1]]), toLowerCase(any[jk[2]]))])

\* all sequences of length at most n of distinct elements of S
DistinctSeqs(S, n) ==
    UNION {{q \in [1..m -> S] : \A a, b \in 1..m : a # b => q[a] # q[b]} : m \in 0..n}

EmptySources == [overrides |-> <<>>, builtin |-> <<>>]

EmptyCache == [readme |-> {}, tree |-> {}]

NoOpts == [apply |-> FALSE, noCache |-> FALSE]

\* the values of the variables that a specification does not use
IdleMain ==
    /\ hints = <<>> /\ files = NoFiles /\ cache = EmptyCache /\ opts = NoOpts
    /\ gh = <<>> /\ cache0 = EmptyCache
    /\ repos = <<>> /\ results = <<>> /\ phase = <<>> /\ out = {}
    /\ i = 0 /\ active = 0 /\ done = 0 /\ savePos = 0 /\ prevFiles = NoFiles
    /\ exitCode = NONE /\ logged = <<>> /\ firstPatch = <<>> /\ run = 0 /\ snap = NoFiles

\* ------------------------------------------------------------------------
\* SpecRows: buildPatch over drawn detection rows
\* ------------------------------------------------------------------------

mkRow(repo, current, detected, conf) ==
    [repo |-> repo, themeNames |-> <<>>, currentStrategy |-> current,
     detectedStrategy |-> detected, confidence |-> conf,
     status |-> rowStatus(current, detected), signals |-> <<>>, error |-> NONE]

RowCurrents == {"missing", "setup", "load"}

\* rows detectRepo can return for one repository
RowPool(repo) ==
       {mkRow(repo, c, d, k) : c \in RowCurrents, d \in {"setup", "load"}, k \in {80, 90, 100}}
  \cup {mkRow(repo, c, "unknown", k) : c \in RowCurrents, k \in {0, 100}}
  \cup {errorRow(repo, <<>>, [overrides |-> <<Entry(<<"a">>, repo, "cs", TRUE, TRUE, c, NONE)>>,
                              builtin |-> <<>>], "gh failed") : c \in {"setup", "load"}}
  \cup {errorRow(repo, <<>>, EmptySources, "gh failed")}

\* the sorted row arrays over at most MaxRows distinct repositories
RowArrays ==
    UNION {LET rs == SortedSeqOf(R)
           IN {[k \in 1..Len(rs) |-> [g[rs[k]] EXCEPT !.repo = rs[k]]] :
                  g \in [R -> RowPool(NOSTR)]}
           : R \in {R \in SUBSET RepoUniverse : Cardinality(R) <= MaxRows}}

InitRows ==
    /\ pc = "rows"
    /\ rows \in RowArrays
    /\ patch = <<>>
    /\ themes = <<>> /\ sources = EmptySources
    /\ nextSources = EmptySources /\ again = EmptySources
    /\ IdleMain

BuildPatch ==
    /\ pc = "rows"
    /\ patch' = buildPatch(rows)
    /\ pc' = "patched"
    /\ UNCHANGED <<logged, firstPatch, themes, hints, files, cache, opts, gh, cache0, sources, poolVars, rows,
                   nextSources, again, savePos, prevFiles, exitCode, run, snap>>

NextRows == BuildPatch

SpecRows == InitRows /\ [][NextRows]_vars

\* ------------------------------------------------------------------------
\* SpecPatch: applyPatch over drawn sources, patches and inventories
\* ------------------------------------------------------------------------

Theme(name, repo, colorscheme) ==
    Entry(name, repo, colorscheme, FALSE, FALSE, NONE, NONE)

\* index.json entries: two repositories, a second theme of RepoA and a theme
\* without repo; RepoC is in no inventory
ThemePool ==
    {Theme(<<"a">>, RepoA, "csA"), Theme(<<"B">>, RepoB, "csB"),
     Theme(<<"c">>, RepoA, "csA2"), Theme(<<"b">>, NOSTR, "csX")}

\* entries of the sources: with and without meta / strategy / repo, two
\* entries of one repository, and names that differ only in case
EntryPool ==
    {Entry(<<"a">>, RepoA, "csA", TRUE, TRUE, "setup", "m"),
     Entry(<<"c">>, RepoA, "csA2", TRUE, TRUE, "load", NONE),
     Entry(<<"B">>, RepoB, "csB", FALSE, FALSE, NONE, NONE),
     Entry(<<"A">>, RepoB, "csB2", TRUE, FALSE, NONE, NONE),
     Entry(<<"b">>, NOSTR, "csX", TRUE, TRUE, "colorscheme", NONE)}

BuiltinEntry == Entry(<<"d">>, NOSTR, "default", FALSE, FALSE, NONE, NONE)

\* the patches buildPatch can return: distinct repositories, a strategy other
\* than unknown, a confidence of at least 0.9
PatchArrays ==
    UNION {LET rs == SortedSeqOf(R)
           IN {[k \in 1..Len(rs) |-> [repo |-> rs[k], strategy |-> g[rs[k]], confidence |-> 90]] :
                  g \in [R -> {"setup", "load"}]}
           : R \in {R \in SUBSET RepoUniverse : Cardinality(R) <= MaxPatch}}

SourcesPool ==
    {[overrides |-> o, builtin |-> <<BuiltinEntry>>] : o \in DistinctSeqs(EntryPool, MaxStore)}

InitPatch ==
    /\ pc = "loaded"
    /\ sources \in SourcesPool
    /\ patch \in PatchArrays
    /\ themes \in DistinctSeqs(ThemePool, MaxThemes)
    /\ rows = <<>>
    /\ nextSources = EmptySources /\ again = EmptySources
    /\ IdleMain

ApplyOnce ==
    /\ pc = "loaded"
    /\ nextSources' = applyPatch(sources, patch, themes)
    /\ pc' = "applied"
    /\ UNCHANGED <<logged, firstPatch, themes, hints, files, cache, opts, gh, cache0, sources, poolVars, rows, patch,
                   again, savePos, prevFiles, exitCode, run, snap>>

ApplyTwice ==
    /\ pc = "applied"
    /\ again' = applyPatch(nextSources, patch, themes)
    /\ pc' = "reapplied"
    /\ UNCHANGED <<logged, firstPatch, themes, hints, files, cache, opts, gh, cache0, sources, poolVars, rows, patch,
                   nextSources, savePos, prevFiles, exitCode, run, snap>>

NextPatch == ApplyOnce \/ ApplyTwice

SpecPatch == InitPatch /\ [][NextPatch]_vars

\* ------------------------------------------------------------------------
\* SpecStore: load the sources, apply a patch, save; then once more with the
\* same patch.  saveSources writes its strategy files one after the other with
\* writeFileSync, and a write can throw (disk full, permissions): SaveFile is
\* one pass of its loop and SaveFail the pass whose write throws.
\* ------------------------------------------------------------------------

MaxRuns == 2

\* sources directories left by an earlier save, without and with an
\* overrides.json next to the strategy files
FilesPool ==
       {saveSources(NoFiles, src) : src \in SourcesPool}
  \cup {[saveSources(NoFiles, src) EXCEPT !["overrides"] =
            [exists |-> TRUE, strategy |-> NONE, count |-> 0,
             themes |-> src.overrides, builtin |-> src.builtin]] : src \in SourcesPool}

IdlePool ==
    /\ repos = <<>> /\ results = <<>> /\ phase = <<>> /\ out = {}
    /\ i = 0 /\ active = 0 /\ done = 0

InitStore ==
    /\ pc = "load"
    /\ files \in FilesPool
    /\ patch \in PatchArrays
    /\ themes \in DistinctSeqs(ThemePool, MaxThemes)
    /\ hints = <<>> /\ cache = EmptyCache /\ opts = [apply |-> TRUE, noCache |-> FALSE]
    /\ gh = <<>> /\ cache0 = EmptyCache
    /\ sources = EmptySources /\ rows = <<>>
    /\ nextSources = EmptySources /\ again = EmptySources
    /\ savePos = 0 /\ prevFiles = files /\ exitCode = NONE /\ logged = <<>> /\ firstPatch = <<>>
    /\ run = 1 /\ snap = NoFiles
    /\ IdlePool

\* main, line 681
StoreLoad ==
    /\ pc = "load"
    /\ sources' = loadSources(files)
    /\ pc' = "loaded"
    /\ UNCHANGED <<logged, firstPatch, inputVars, files, cache, poolVars, rows, patch, nextSources, again,
                   savePos, prevFiles, exitCode, run, snap>>

\* main, lines 756-757: applyPatch and the entry into saveSources
StoreApply ==
    /\ pc = "loaded"
    /\ nextSources' = applyPatch(sources, patch, themes)
    /\ prevFiles' = files
    /\ savePos' = 1
    /\ pc' = "saving"
    /\ UNCHANGED <<logged, firstPatch, inputVars, files, cache, sources, poolVars, rows, patch, again,
                   exitCode, run, snap>>

\* saveSources, lines 659-670: one pass of the loop
SaveFile ==
    /\ pc = "saving"
    /\ savePos <= Len(SaveOrder)
    /\ files' = saveStrategyFile(files, nextSources, SaveOrder[savePos])
    /\ savePos' = savePos + 1
    /\ pc' = IF savePos = Len(SaveOrder) THEN "saved" ELSE "saving"
    /\ UNCHANGED <<logged, firstPatch, inputVars, cache, sources, poolVars, rows, patch, nextSources, again,
                   prevFiles, exitCode, run, snap>>

\* saveSources, line 665: writeJsonFile throws; main().catch exits with 1
SaveFail ==
    /\ pc = "saving"
    /\ savePos <= Len(SaveOrder)
    /\ Len(byStrategy(nextSources, SaveOrder[savePos])) > 0
    /\ pc' = "failed"
    /\ exitCode' = 1
    /\ UNCHANGED <<logged, firstPatch, inputVars, files, cache, sources, poolVars, rows, patch, nextSources,
                   again, savePos, prevFiles, run, snap>>

\* the next invocation, with the same patch
StoreRerun ==
    /\ pc = "saved"
    /\ run < MaxRuns
    /\ run' = run + 1
    /\ snap' = IF run = 1 THEN files ELSE snap
    /\ pc' = "load"
    /\ UNCHANGED <<logged, firstPatch, inputVars, files, cache, sources, poolVars, rows, patch, nextSources,
                   again, savePos, prevFiles, exitCode>>

NextStore == StoreLoad \/ StoreApply \/ SaveFile \/ SaveFail \/ StoreRerun

SpecStore == InitStore /\ [][NextStore]_vars

\* ------------------------------------------------------------------------
\* Spec: one batch run of main
\* ------------------------------------------------------------------------

Hint(repo, strategy) == [repo |-> repo, strategy |-> strategy]

ThemeA == Theme(<<"a">>, RepoA, "csA")

ThemeB == Theme(<<"B">>, RepoB, "csB")

ThemeBLower == Theme(<<"b">>, RepoBLower, "csb")

\* two repositories; one repository and a theme without repo; two themes of
\* one repository
MainInventories ==
    {<<ThemeB, ThemeA>>,
     <<ThemeBLower, ThemeB>>,
     <<ThemeA, Theme(<<"b">>, NOSTR, "csX"), Theme(<<"c">>, RepoA, "csA2")>>}

MainHints == {<<>>, <<Hint(RepoA, "load"), Hint(RepoB, "setup"), Hint(RepoB, "unknown")>>}

MainFiles ==
    {NoFiles,
     saveSources(NoFiles, [overrides |-> <<Entry(<<"a">>, RepoA, "csA", TRUE, TRUE, "setup", "m")>>,
                           builtin |-> <<BuiltinEntry>>]),
     saveSources(NoFiles, [overrides |-> <<Entry(<<"a">>, RepoA, "csA", TRUE, TRUE, "load", NONE),
                                           Entry(<<"B">>, RepoB, "csB", FALSE, FALSE, NONE, NONE)>>,
                           builtin |-> <<>>])}

\* README texts: a decisive one (load 10) and an indecisive one (colorscheme 4)
MainTexts == {{"reqload"}, {"colon"}}

MainTrees == {{"colorsvim"}}

\* gh answers with a README, fails, or answers without a content field
ReadmeAnswers(texts) ==
    {[kind |-> "ok", text |-> t] : t \in texts}
      \cup {[kind |-> "fail", text |-> {}], [kind |-> "nocontent", text |-> {}]}

TreeAnswers(trees) ==
    {[kind |-> "ok", files |-> f] : f \in trees} \cup {[kind |-> "fail", files |-> {}]}

MainResponses ==
    [readme : {a \in ReadmeAnswers(MainTexts) : a.kind # "nocontent"},
     tree : TreeAnswers(MainTrees)]

MainCaches ==
    {EmptyCache,
     [readme |-> {[slug |-> slugRepo(RepoA), text |-> {"colon"}]},
      tree |-> {[slug |-> slugRepo(RepoA), ok |-> FALSE, files |-> {}]}]}

Init ==
    /\ pc = "start"
    /\ themes \in MainInventories
    /\ hints \in MainHints
    /\ files \in MainFiles
    /\ cache \in MainCaches
    /\ cache0 = cache
    /\ opts \in [apply : BOOLEAN, noCache : BOOLEAN]
    /\ gh \in [Range(selectRepos(themes)) -> MainResponses]
    /\ sources = EmptySources /\ rows = <<>> /\ patch = <<>>
    /\ nextSources = EmptySources /\ again = EmptySources
    /\ savePos = 0 /\ prevFiles = files /\ exitCode = NONE /\ logged = <<>> /\ firstPatch = <<>>
    /\ run = 1 /\ snap = NoFiles
    /\ IdlePool

\* main, lines 673-730: load the inputs and select the repositories
MainStart ==
    /\ pc = "start"
    /\ sources' = loadSources(files)
    /\ repos' = selectRepos(themes)
    /\ results' = <<>> /\ phase' = <<>> /\ out' = {}
    /\ i' = 0 /\ active' = 0 /\ done' = 0
    /\ pc' = "pool"
    /\ UNCHANGED <<logged, firstPatch, inputVars, files, cache, rows, patch, nextSources, again,
                   savePos, prevFiles, exitCode, run, snap>>

\* limit, lines 490-504: the tasks b that the while loop of next() started
Started(activeNow, ph, b) ==
    /\ results' = results \o b.outcomes
    /\ phase' = ph \o [j \in 1..Len(b.outcomes) |-> "resolved"]
    /\ i' = i + Len(b.outcomes)
    /\ active' = activeNow + Len(b.outcomes)
    /\ cache' = b.cache
    /\ IF \E j \in 1..Len(b.outcomes) : b.outcomes[j].escaped
       THEN pc' = "rejected" /\ exitCode' = 1
       ELSE pc' = "running" /\ exitCode' = exitCode

\* limit, lines 488-505: the closure next(), called with the counters as they
\* are after the caller's updates and with the phases ph of the started tasks
NextCall(activeNow, doneNow, ph) ==
    IF limitResolves(doneNow, Len(repos))
    THEN /\ pc' = "collected"
         /\ active' = activeNow /\ phase' = ph
         /\ UNCHANGED <<logged, firstPatch, results, i, cache, exitCode>>
    ELSE \E k \in {whileStarts(activeNow, i, Len(repos))} :
            \E b \in {runTasks(SubSeq(repos, i + 1, i + k), themes, sources, opts,
                                hints, cache, gh)} :
               Started(activeNow, ph, b)

\* limit, line 506: the first call of next()
LimitNext ==
    /\ pc = "pool"
    /\ NextCall(active, done, phase)
    /\ UNCHANGED <<logged, firstPatch, inputVars, files, sources, repos, out, done, rows, patch, nextSources,
                   again, savePos, prevFiles, run, snap>>

\* limit, lines 494-497: the then callback of task idx
TaskThen(idx) ==
    /\ pc = "running"
    /\ phase[idx] = "resolved"
    /\ out' = out \cup {[idx |-> outSlot(idx, out), row |-> results[idx].row]}
    /\ phase' = [phase EXCEPT ![idx] = "then"]
    /\ UNCHANGED <<logged, firstPatch, inputVars, files, cache, sources, repos, results, i, active, done,
                   pc, rows, patch, nextSources, again, savePos, prevFiles, exitCode,
                   run, snap>>

\* limit, lines 499-503: the finally callback of task idx
TaskFinally(idx) ==
    /\ pc = "running"
    /\ phase[idx] = "then"
    /\ done' = done + 1
    /\ NextCall(active - 1, done + 1, [phase EXCEPT ![idx] = "settled"])
    /\ UNCHANGED <<logged, firstPatch, inputVars, files, sources, repos, out, rows, patch, nextSources,
                   again, savePos, prevFiles, run, snap>>

\* main, lines 743-752: sort the rows, write detection.json, build the patch
Report ==
    /\ pc = "collected"
    /\ \E sorted \in {sortByRepo(outArray(out))} :
          /\ rows' = sorted
          /\ patch' = sortedPatch(sorted)
    /\ pc' = "reported"
    /\ UNCHANGED <<logged, firstPatch, inputVars, files, cache, sources, poolVars, nextSources, again,
                   savePos, prevFiles, exitCode, run, snap>>

\* main, lines 754-757: applyPatch and the entry into saveSources
ApplyStart ==
    /\ pc = "reported"
    /\ shouldApply(opts)
    /\ nextSources' = applyPatch(sources, patch, themes)
    /\ prevFiles' = files
    /\ savePos' = 1
    /\ pc' = "saving"
    /\ UNCHANGED <<logged, firstPatch, inputVars, files, cache, sources, poolVars, rows, patch, again,
                   exitCode, run, snap>>

\* main, lines 758-764: the run ends with exit code 0
Finish ==
    /\ \/ pc = "reported" /\ ~shouldApply(opts)
       \/ pc = "saved"
    /\ pc' = "done"
    /\ exitCode' = 0
    /\ UNCHANGED <<logged, firstPatch, inputVars, files, cache, sources, poolVars, rows, patch, nextSources,
                   again, savePos, prevFiles, run, snap>>

Next ==
    \/ MainStart
    \/ LimitNext
    \/ \E idx \in 1..Len(phase) : TaskThen(idx)
    \/ \E idx \in 1..Len(phase) : TaskFinally(idx)
    \/ Report
    \/ ApplyStart
    \/ SaveFile
    \/ SaveFail
    \/ Finish

Spec == Init /\ [][Next]_vars

\* the event loop runs every queued callback and main runs on
FairSpec == Spec /\ WF_vars(Next)

\* ------------------------------------------------------------------------
\* SpecClassify: detectRepo on one repository, over drawn evidence
\* ------------------------------------------------------------------------

\* ------------------------------------------------------------------------
\* The pool: limit over more repositories than the concurrency ceiling
\* ------------------------------------------------------------------------

MaxPoolItems == 7

PoolNames == <<"a", "b", "c", "d", "A", "B", "C", "o", "_">>

PoolTheme(k) == Theme(<<PoolNames[k]>>, <<"o", "/", PoolNames[k]>>, "cs")

\* an inventory of n themes, each of its own repository
PoolInventory(n) == [k \in 1..n |-> PoolTheme(k)]

\* every repository gets the same answer: a decisive README
PoolResponse ==
    [readme |-> [kind |-> "ok", text |-> {"reqload"}], tree |-> [kind |-> "fail", files |-> {}]]

InitPool ==
    /\ pc = "start"
    /\ themes = PoolInventory(MaxPoolItems)
    /\ hints = <<>>
    /\ files = NoFiles
    /\ cache = EmptyCache
    /\ cache0 = cache
    /\ opts = NoOpts
    /\ gh = [r \in Range(selectRepos(themes)) |-> PoolResponse]
    /\ sources = EmptySources /\ rows = <<>> /\ patch = <<>>
    /\ nextSources = EmptySources /\ again = EmptySources
    /\ savePos = 0 /\ prevFiles = files /\ exitCode = NONE /\ logged = <<>> /\ firstPatch = <<>>
    /\ run = 1 /\ snap = NoFiles
    /\ IdlePool

NextPool ==
    \/ MainStart
    \/ LimitNext
    \/ \E idx \in 1..Len(phase) : TaskThen(idx)
    \/ \E idx \in 1..Len(phase) : TaskFinally(idx)
    \/ Report

SpecPool == InitPool /\ [][NextPool]_vars

MaxSnippets == 2

\* texts of three snippets: colorscheme 7 over setup 5, where 0.7 + 0.2 is
\* 0.8999999999999999; setup 5 under colorscheme 8; setup 9 under colorscheme 12
EdgeTexts ==
    {{"setupblock", "colon", "letg"}, {"setupblock", "colon", "vimcmd"},
     {"reqsetup", "vimcmd", "vimcmdfn"}}

ClassifyTexts == {t \in SUBSET Snippets : Cardinality(t) <= MaxSnippets} \cup EdgeTexts

ClassifyTrees == SUBSET TreePaths

ClassifyResponses == [readme : ReadmeAnswers(ClassifyTexts), tree : TreeAnswers(ClassifyTrees)]

\* no hint, a hint of each category, two hints of one repository, and a hint
\* of another repository
ClassifyHints ==
    {<<>>, <<Hint(RepoA, "setup"), Hint(RepoA, "file")>>, <<Hint(RepoB, "load")>>}
      \cup {<<Hint(RepoA, s)>> : s \in StrategyTypes}

ClassifyFiles == {f \in MainFiles : ~f["load"].exists}

InitClassify ==
    /\ pc = "start"
    /\ themes = <<ThemeA>>
    /\ hints \in ClassifyHints
    /\ files \in ClassifyFiles
    /\ cache \in MainCaches
    /\ cache0 = cache
    /\ opts \in [apply : {FALSE}, noCache : BOOLEAN]
    /\ gh \in [{RepoA} -> ClassifyResponses]
    /\ sources = loadSources(files)
    /\ repos = <<RepoA>>
    /\ results = <<>> /\ phase = <<>> /\ out = {}
    /\ i = 0 /\ active = 0 /\ done = 0
    /\ rows = <<>> /\ patch = <<>>
    /\ nextSources = EmptySources /\ again = EmptySources
    /\ savePos = 0 /\ prevFiles = files /\ exitCode = NONE /\ logged = <<>> /\ firstPatch = <<>>
    /\ run = 1 /\ snap = NoFiles

\* one call detectRepo(repo, themes, sources, opts, hintsMap)
Classify ==
    /\ pc = "start"
    /\ \E outcome \in {detectRepo(repos[1], themes, sources, opts, hints, cache, gh[repos[1]])} :
          /\ results' = <<outcome>>
          /\ cache' = outcome.cache
    /\ pc' = "classified"
    /\ UNCHANGED <<logged, firstPatch, inputVars, files, sources, repos, phase, out, i, active, done, rows,
                   patch, nextSources, again, savePos, prevFiles, exitCode, run, snap>>

NextClassify == Classify

SpecClassify == InitClassify /\ [][NextClassify]_vars

\* ------------------------------------------------------------------------
\* The fetch functions alone: a few calls for one repository, over two runs
\* between which the options and GitHub's answers may change
\* ------------------------------------------------------------------------

MaxFetches == 3

FetchTexts == {{"colon"}, {"reqload"}}

FetchTrees == {{"colorsvim"}, {"luamod"}}

FetchResponses == [readme : ReadmeAnswers(FetchTexts), tree : TreeAnswers(FetchTrees)]

ReadmeEntry(repo, text) == [slug |-> slugRepo(repo), text |-> text]

TreeEntry(repo, ok, paths) == [slug |-> slugRepo(repo), ok |-> ok, files |-> paths]

\* nothing cached; the repository's README or tree or both; a tree file that
\* is not valid JSON; the files of another repository
FetchCaches ==
    {EmptyCache,
     [readme |-> {ReadmeEntry(RepoA, {"colon"})}, tree |-> {}],
     [readme |-> {}, tree |-> {TreeEntry(RepoA, TRUE, {"colorsvim"})}],
     [readme |-> {ReadmeEntry(RepoA, {"reqload"})}, tree |-> {TreeEntry(RepoA, TRUE, {"luamod"})}],
     [readme |-> {}, tree |-> {TreeEntry(RepoA, FALSE, {})}],
     [readme |-> {ReadmeEntry(RepoB, {"colon"})}, tree |-> {TreeEntry(RepoB, TRUE, {"luamod"})}]}

\* the record of one call: the mode, the cache before and after it, what it
\* returned or threw, and whether gh was run
Fetched(fn, repo, o, before, r, content) ==
    [fn |-> fn, repo |-> repo, noCache |-> o.noCache, before |-> before, after |-> r.cache,
     threw |-> r.threw, content |-> content, asked |-> r.asked]

InitFetch ==
    /\ pc = "fetch"
    /\ themes = <<ThemeA>>
    /\ hints = <<>>
    /\ files = NoFiles
    /\ cache \in FetchCaches
    /\ cache0 = cache
    /\ opts \in [apply : {FALSE}, noCache : BOOLEAN]
    /\ gh \in [{RepoA} -> FetchResponses]
    /\ sources = EmptySources
    /\ repos = <<RepoA>>
    /\ results = <<>> /\ phase = <<>> /\ out = {}
    /\ i = 0 /\ active = 0 /\ done = 0
    /\ rows = <<>> /\ patch = <<>>
    /\ nextSources = EmptySources /\ again = EmptySources
    /\ savePos = 0 /\ prevFiles = files /\ exitCode = NONE /\ logged = <<>> /\ firstPatch = <<>>
    /\ run = 1 /\ snap = NoFiles

\* one call fetchReadme(repo, opts)
FetchText ==
    /\ pc = "fetch"
    /\ Len(results) < MaxFetches
    /\ \E r \in {fetchReadme(repos[1], opts, cache, gh[repos[1]].readme)} :
          /\ results' = Append(results, Fetched("fetchReadme", repos[1], opts, cache, r, r.text))
          /\ cache' = r.cache
    /\ UNCHANGED <<logged, firstPatch, pc, themes, hints, files, opts, gh, cache0, sources, repos, phase, out, i,
                   active, done, rows, patch, nextSources, again, savePos, prevFiles,
                   exitCode, run, snap>>

\* one call fetchRepoTree(repo, opts)
FetchTree ==
    /\ pc = "fetch"
    /\ Len(results) < MaxFetches
    /\ \E r \in {fetchRepoTree(repos[1], opts, cache, gh[repos[1]].tree)} :
          /\ results' = Append(results, Fetched("fetchRepoTree", repos[1], opts, cache, r, r.files))
          /\ cache' = r.cache
    /\ UNCHANGED <<logged, firstPatch, pc, themes, hints, files, opts, gh, cache0, sources, repos, phase, out, i,
                   active, done, rows, patch, nextSources, again, savePos, prevFiles,
                   exitCode, run, snap>>

\* the next run of the script: other options, other answers, the same cache
\* directory
NextRun ==
    /\ pc = "fetch"
    /\ run < MaxRuns
    /\ run' = run + 1
    /\ opts' \in [apply : {FALSE}, noCache : BOOLEAN]
    /\ gh' \in [{RepoA} -> FetchResponses]
    /\ UNCHANGED <<logged, firstPatch, pc, themes, hints, files, cache, cache0, sources, repos, results, phase,
                   out, i, active, done, rows, patch, nextSources, again, savePos,
                   prevFiles, exitCode, snap>>

NextFetch == FetchText \/ FetchTree \/ NextRun

SpecFetch == InitFetch /\ [][NextFetch]_vars

\* ------------------------------------------------------------------------
\* Properties
\* ------------------------------------------------------------------------

\* the row that the single call of SpecClassify returned
classifiedRow == results[1].row

RunOver == pc \in {"reported", "saving", "saved", "failed", "done"}

\* the row of the error that task k caught
IsErrorRowOf(r, k) ==
    /\ r.repo = repos[k]
    /\ r.status = "error"
    /\ r.detectedStrategy = "unknown"
    /\ r.confidence = 0
    /\ r.error = results[k].threw

\* C2: an exception while fetching or classifying one repository never ends
\* the run: the report has for that repository a row with status error,
\* category unknown, confidence 0 and the message, and for every other
\* repository the row that its own classification computed
C2_ErrorsBecomeRows ==
    /\ pc # "rejected"
    /\ RunOver =>
         \A k \in 1..Len(repos) :
            \E p \in 1..Len(rows) :
               IF results[k].threw # NONE
               THEN IsErrorRowOf(rows[p], k)
               ELSE /\ rows[p] = results[k].row
                    /\ rows[p].repo = repos[k]
                    /\ rows[p].status # "error"
                    /\ rows[p].error = NONE

\* a finished run of two repositories, one of which threw
C2_Witness ==
    /\ pc = "done" /\ exitCode = 0
    /\ Len(repos) = 2
    /\ \E k, j \in 1..Len(repos) : results[k].threw # NONE /\ results[j].threw = NONE

\* the report has exactly one row for every selected repository
ReportComplete ==
    /\ Len(rows) = Len(repos)
    /\ \A k \in 1..Len(repos) : Cardinality({p \in 1..Len(rows) : rows[p].repo = repos[k]}) = 1

\* C3: every batch run reaches the report, and the report then has exactly one
\* row for each selected repository
C3_EveryRepoReported == <>(pc = "reported" /\ ReportComplete)

\* a complete report of two repositories with an error row in it
C3_Witness ==
    /\ pc = "reported" /\ ReportComplete
    /\ Len(repos) = 2
    /\ \E p \in 1..Len(rows) : rows[p].status = "error"

\* C10: the persisted sources change only in the save that follows applyPatch,
\* and only in a run with the apply option; in a run without it they stay as
\* they were at its start, whatever the patch
C10_FilesChangeOnlyOnApply ==
    [][/\ files' # files => (opts.apply /\ pc = "saving")
       /\ ~opts.apply => files' = prevFiles']_vars

\* a run without the flag that ended with a patch in hand and the files as
\* they were
C10_Witness ==
    /\ pc = "done"
    /\ ~opts.apply
    /\ Len(patch) > 0
    /\ files = prevFiles

\* C4: buildPatch emits {repo, strategy, confidence} for a row if and only
\* if the row's status is mismatch or missing-meta, its detected strategy is
\* not unknown and its confidence is at least 0.9; in particular match and
\* error rows yield no entry, and the patch holds nothing but these entries.
C4_PatchIffEligible ==
    pc = "patched" =>
        /\ \A k \in 1..Len(rows) :
              (\E j \in 1..Len(patch) : patch[j] = [repo |-> rows[k].repo,
                                                    strategy |-> rows[k].detectedStrategy,
                                                    confidence |-> rows[k].confidence])
              <=> /\ rows[k].status \in {"mismatch", "missing-meta"}
                  /\ rows[k].detectedStrategy # "unknown"
                  /\ rows[k].confidence >= 90
        /\ \A j \in 1..Len(patch) : \E k \in 1..Len(rows) :
              /\ patch[j].repo = rows[k].repo
              /\ rows[k].status \notin {"match", "error"}
        /\ \A a, b \in 1..Len(patch) : a # b => patch[a].repo # patch[b].repo

\* a patch with one entry, next to an excluded row of each kind
C4_Witness ==
    /\ pc = "patched"
    /\ Len(rows) = 2 /\ Len(patch) = 1
    /\ \E k \in 1..2 : rows[k].status = "missing-meta" /\ rows[k].confidence = 80
                       /\ rows[k].detectedStrategy # "unknown"
    /\ \E k \in 1..2 : rows[k].status = "mismatch" /\ rows[k].confidence = 90

\* the repositories named by a patch
PatchRepos(p) == {p[k].repo : k \in 1..Len(p)}

\* the multiset of entries of a sequence, as a count per entry
CountOf(seq, e) == Cardinality({k \in 1..Len(seq) : seq[k] = e})

\* C5: applyPatch is idempotent: applying the patch to the result of
\* applying it gives that result again.
C5_ApplyIdempotent ==
    pc = "reapplied" => again = nextSources

\* a second application over a result that holds an updated entry, a
\* synthesized entry and an untouched entry
C5_Witness ==
    /\ pc = "reapplied"
    /\ Len(patch) = 2
    /\ \E k \in 1..Len(sources.overrides) :
          /\ sources.overrides[k].repo \in PatchRepos(patch)
          /\ patchMapGet(patch, sources.overrides[k].repo) # sources.overrides[k].type
    /\ Len(nextSources.overrides) > Len(sources.overrides)

\* what C6 expects of an entry of the sources after the patch
C6_Expected(e) ==
    IF e.repo # NOSTR /\ e.repo \in PatchRepos(patch)
    THEN [e EXCEPT !.hasMeta = TRUE, !.hasStrategy = TRUE,
                   !.type = (CHOOSE p \in Range(patch) : p.repo = e.repo).strategy]
    ELSE e

\* C6: in entries whose repo matches a patch entry applyPatch changes only
\* the strategy type; every other field of them, and every entry whose repo
\* is not in the patch, is kept as it was (the entries may be reordered).
C6_OnlyStrategyChanges ==
    pc \in {"applied", "reapplied"} =>
        /\ \A e \in Range(sources.overrides) :
              CountOf(nextSources.overrides, C6_Expected(e))
                  = Cardinality({k \in 1..Len(sources.overrides) :
                                    C6_Expected(sources.overrides[k]) = C6_Expected(e)})
        /\ nextSources.builtin = sources.builtin
        /\ \A e \in Range(nextSources.overrides) :
              \/ \E o \in Range(sources.overrides) :
                    /\ o.name = e.name /\ o.repo = e.repo
                    /\ o.colorscheme = e.colorscheme /\ o.module = e.module
                    /\ (o.repo \notin PatchRepos(patch) => o = e)
              \/ e.repo \notin {o.repo : o \in Range(sources.overrides)}

\* an entry with a module field whose type is changed, next to an entry
\* that the patch does not name
C6_Witness ==
    /\ pc = "applied"
    /\ \E e \in Range(sources.overrides) :
          /\ e.repo \in PatchRepos(patch) /\ e.module # NONE
          /\ e.type # patchMapGet(patch, e.repo)
    /\ \E e \in Range(sources.overrides) : e.repo # NOSTR /\ e.repo \notin PatchRepos(patch)

\* C7: every entry that applyPatch adds has a repo of the inventory, with the
\* name and colorscheme of the first inventory entry of that repo; a patch
\* entry whose repo is in neither the sources nor the inventory adds nothing.
C7_NoFabrication ==
    pc \in {"applied", "reapplied"} =>
        LET old == {o.repo : o \in Range(sources.overrides)}
            added == {e \in Range(nextSources.overrides) : e.repo \notin old}
        IN /\ \A e \in added :
                 /\ inInventory(themes, e.repo)
                 /\ e.name = firstTheme(themes, e.repo).name
                 /\ e.colorscheme = firstTheme(themes, e.repo).colorscheme
           /\ \A r \in PatchRepos(patch) :
                 r \notin old /\ ~inInventory(themes, r)
                     => \A e \in Range(nextSources.overrides) : e.repo # r
           /\ Len(nextSources.overrides) =
                 Len(sources.overrides)
                 + Cardinality({r \in PatchRepos(patch) : r \notin old /\ inInventory(themes, r)})

\* a patch with one repository that is synthesized from the inventory and one
\* that is in neither the sources nor the inventory
C7_Witness ==
    /\ pc = "applied"
    /\ \E r \in PatchRepos(patch) :
          r \notin {o.repo : o \in Range(sources.overrides)} /\ inInventory(themes, r)
    /\ \E r \in PatchRepos(patch) :
          r \notin {o.repo : o \in Range(sources.overrides)} /\ ~inInventory(themes, r)
    /\ Len(nextSources.overrides) = Len(sources.overrides) + 1

\* the entries of all strategy files of a sources directory
StoredEntries(fs) ==
    themesOfFile(fs, "setup") \o themesOfFile(fs, "load") \o themesOfFile(fs, "colorscheme")

\* C8: applying and persisting a patch, then loading, applying the same patch
\* and persisting again leaves the persisted sources as the first run left
\* them, with no entry stored twice.
C8_ReapplyIdentical ==
    pc = "saved" /\ run = 2 =>
        /\ files = snap
        /\ \A e \in Range(StoredEntries(files)) :
              CountOf(StoredEntries(files), e) <= Max(1, CountOf(StoredEntries(snap), e))

\* C9: once saveSources has ended, by returning or by throwing, the persisted
\* sources are entirely the previous ones or entirely the updated ones.
C9_AllOrNothing ==
    pc \in {"saved", "failed"} =>
        \/ files = prevFiles
        \/ files = saveSources(prevFiles, nextSources)

\* the sorted rows that the inventory, the hints, the options, the persisted
\* sources, the cache at the start and GitHub's answers determine
rowsOfInputs ==
    LET selected == selectRepos(themes)
        batch    == runTasks(selected, themes, loadSources(files), opts, hints, cache0, gh)
    IN sortByRepo([k \in 1..Len(selected) |-> batch.outcomes[k].row])

\* C11: the sorted detection rows of a batch run are a function of the
\* inventory, the hints, the persisted sources, the cache at the start and the
\* answers of GitHub: whatever the order in which the tasks' callbacks ran,
\* two runs over the same inputs report the same array
C11_RowsIndependentOfCompletionOrder ==
    pc = "reported" => rows = rowsOfInputs

\* a report of two repositories whose names differ by case only, so that the
\* sort leaves their rows in the order of the out array
C11_Witness ==
    /\ pc = "reported"
    /\ Len(rows) = 2
    /\ repos[1] # repos[2]
    /\ toLowerCase(repos[1]) = toLowerCase(repos[2])
    /\ rows[1].repo = repos[1]

\* the tasks whose promise chain has not run to its end
InFlight == {k \in 1..Len(phase) : phase[k] # "settled"}

\* C12: at every moment of a batch run at most 6 classifications are in
\* flight: the counter active and the number of started tasks whose chain has
\* not yet settled never exceed the concurrency ceiling
C12_AtMostCeilingInFlight ==
    /\ active <= CONCURRENCY
    /\ Cardinality(InFlight) <= CONCURRENCY

\* the ceiling is reached while repositories are still waiting to be started
C12_Witness ==
    /\ pc = "running"
    /\ Cardinality(InFlight) = CONCURRENCY
    /\ active = CONCURRENCY
    /\ i < Len(repos)

\* the fetch calls of the classified repository
classifiedCalls == results[1].calls

treeFetched == \E k \in 1..Len(classifiedCalls) : classifiedCalls[k].fn = "fetchRepoTree"

\* the README the classifier read, from the cache or from GitHub
readmeRead == fetchReadme(repos[1], opts, cache0, gh[repos[1]].readme)

\* the text-only result
textOnly == detectFromTextOf[readmeRead.text]

\* C13: once the README is read, the tree is fetched if and only if the
\* text-only winner is unknown or the text-only confidence is below 0.9; at
\* 0.9 or more fetchRepoTree is not called at all
C13_EscalatesIffUndecided ==
    (pc = "classified" /\ readmeRead.threw = NONE) =>
        (treeFetched <=> (textOnly.detected = "unknown"
                            \/ textOnly.confidence < ESCALATE_THRESHOLD))

\* an escalation for a known text-only winner of confidence below 0.9
C13_Witness ==
    /\ pc = "classified"
    /\ readmeRead.threw = NONE
    /\ textOnly.detected # "unknown"
    /\ textOnly.confidence < ESCALATE_THRESHOLD
    /\ treeFetched

\* the tree the classifier read after the README, from the cache or from GitHub
treeRead == fetchRepoTree(repos[1], opts, readmeRead.cache, gh[repos[1]].tree)

\* the structure result
structureOnly == inspectSourceOf[treeRead.files]

\* the classification ran to its end, the tree was inspected and the structure
\* result took the place of the text-only result; no hint came after it
Replaced ==
    /\ pc = "classified"
    /\ readmeRead.threw = NONE
    /\ treeFetched
    /\ treeRead.threw = NONE
    /\ replaces(textOnly, structureOnly)
    /\ ~hintsMapHas(hints, repos[1])

\* C14: when the structure result replaces the text-only result, the row's
\* winner is the structure extractor's winner, which is not unknown, and the
\* row's confidence is the structure result's fixed 0.5
C14_ReplacedHasStructureConfidence ==
    Replaced =>
        /\ classifiedRow.detectedStrategy = structureOnly.detected
        /\ classifiedRow.detectedStrategy # "unknown"
        /\ classifiedRow.confidence = toFixed2(STRUCTURE_CONFIDENCE)

\* the winner half of C14, which the code keeps
C14_ReplacedHasStructureWinner ==
    Replaced =>
        /\ classifiedRow.detectedStrategy = structureOnly.detected
        /\ classifiedRow.detectedStrategy # "unknown"

\* the signals a finished classification must list: the text signals, the
\* structure signals if the tree was inspected, the override if a hint applied
auditTrail ==
       textOnly.signals
    \o (IF treeFetched THEN structureOnly.signals ELSE <<>>)
    \o (IF hintsMapHas(hints, repos[1])
        THEN <<Signal(hintsMapGet(hints, repos[1]), 10, "Manual hint override")>>
        ELSE <<>>)

\* C15: the signals of every row that is not an error row are the text
\* signals in the order produced, then the structure signals if the tree was
\* inspected, then the override signal if a hint applied, each signal as it
\* was produced and as often as it was produced
C15_SignalsAppendOnly ==
    (pc = "classified" /\ classifiedRow.status # "error") =>
        classifiedRow.signals = auditTrail

\* a hinted row whose text result was replaced by the structure result, with
\* signals of all three kinds
C15_Witness ==
    /\ pc = "classified"
    /\ classifiedRow.status # "error"
    /\ treeFetched
    /\ replaces(textOnly, structureOnly)
    /\ hintsMapHas(hints, repos[1])
    /\ Len(textOnly.signals) > 1
    /\ Len(structureOnly.signals) > 1
    /\ Len(classifiedRow.signals) = Len(textOnly.signals) + Len(structureOnly.signals) + 1

\* the cached entries of call k's repository, in the cache the call found
entriesBefore(k) ==
    IF results[k].fn = "fetchReadme"
    THEN {e \in results[k].before.readme : e.slug = slugRepo(results[k].repo)}
    ELSE {e \in results[k].before.tree : e.slug = slugRepo(results[k].repo)}

\* the content held by a cached entry
entryContent(e, fn) == IF fn = "fetchReadme" THEN e.text ELSE e.files

\* a cached tree that parses; a cached README is returned as it is
entryReadable(e, fn) == fn = "fetchReadme" \/ e.ok

\* C16: with noCache off, a call that finds an entry of its repository in the
\* cache does not run gh, and returns the content of the entry
C16_HitReturnsCachedWithoutAsking ==
    \A k \in 1..Len(results) :
        (~results[k].noCache /\ entriesBefore(k) # {}) =>
            /\ ~results[k].asked
            /\ \A e \in entriesBefore(k) :
                   entryReadable(e, results[k].fn) =>
                       /\ results[k].threw = NONE
                       /\ results[k].content = entryContent(e, results[k].fn)

\* a tree served from the cache in the second run while GitHub would have
\* answered with another tree
C16_Witness ==
    \E k \in 1..Len(results) :
        /\ results[k].fn = "fetchRepoTree"
        /\ ~results[k].noCache
        /\ entriesBefore(k) # {}
        /\ ~results[k].asked
        /\ results[k].threw = NONE
        /\ gh[results[k].repo].tree.kind = "ok"
        /\ gh[results[k].repo].tree.files # results[k].content
        /\ run = 2

\* call j is the first call after call k for the same evidence of the same
\* repository
nextRequest(k, j) ==
    /\ k < j
    /\ results[j].fn = results[k].fn
    /\ results[j].repo = results[k].repo
    /\ \A m \in (k + 1)..(j - 1) :
           results[m].fn # results[k].fn \/ results[m].repo # results[k].repo

\* call k found no entry of its repository, asked gh and got the evidence
missFetched(k) ==
    /\ ~results[k].noCache
    /\ entriesBefore(k) = {}
    /\ results[k].asked
    /\ results[k].threw = NONE

\* the cache that call k left holds what the call returned
storedAfter(k) ==
    IF results[k].fn = "fetchReadme"
    THEN ReadmeEntry(results[k].repo, results[k].content) \in results[k].after.readme
    ELSE TreeEntry(results[k].repo, TRUE, results[k].content) \in results[k].after.tree

\* C17: a call that misses the cache and fetches with success has written the
\* fetched content to the cache when it returns, and the next request for the
\* same repository (noCache off) is served from the cache with that content
C17_MissWritesThenHits ==
    \A k \in 1..Len(results) :
        missFetched(k) =>
            /\ storedAfter(k)
            /\ \A j \in 1..Len(results) :
                   (nextRequest(k, j) /\ ~results[j].noCache) =>
                       /\ ~results[j].asked
                       /\ results[j].threw = NONE
                       /\ results[j].content = results[k].content

\* a README fetched on a miss in the first run and served from the cache in
\* the second, where GitHub has another README
C17_Witness ==
    \E k, j \in 1..Len(results) :
        /\ missFetched(k)
        /\ results[k].fn = "fetchReadme"
        /\ nextRequest(k, j)
        /\ ~results[j].noCache
        /\ ~results[j].asked
        /\ run = 2
        /\ gh[results[j].repo].readme.kind = "ok"
        /\ gh[results[j].repo].readme.text # results[j].content

\* C18, as the code has it: in noCache mode a fetch runs gh whether or not
\* the cache holds an entry, and leaves the cache as it found it; a later run
\* without noCache finds only what was cached before
C18_NoCacheNeitherReadsNorWrites ==
    \A k \in 1..Len(results) :
        results[k].noCache =>
            /\ results[k].asked
            /\ results[k].after = results[k].before

\* C18, as stated: in noCache mode a fetch bypasses the cache read but still
\* writes what it fetched, so that a later run without noCache finds the entry
C18_NoCacheStillWrites ==
    \A k \in 1..Len(results) :
        (results[k].noCache /\ results[k].threw = NONE) =>
            /\ results[k].asked
            /\ storedAfter(k)

\* a run with noCache fetched the tree with success, and the next run, without
\* noCache, found no entry and ran gh again
C18_Witness ==
    \E k, j \in 1..Len(results) :
        /\ results[k].noCache
        /\ results[k].fn = "fetchRepoTree"
        /\ results[k].threw = NONE
        /\ entriesBefore(k) = {}
        /\ nextRequest(k, j)
        /\ ~results[j].noCache
        /\ entriesBefore(j) = {}
        /\ results[j].asked

\* the cache at the start without the tree entry of repository repo
withoutTree(c, repo) == [c EXCEPT !.tree = {e \in @ : e.slug # slugRepo(repo)}]

\* the classifier read a cached tree of its repository that does not parse
CorruptTreeRead ==
    /\ pc = "classified"
    /\ readmeRead.threw = NONE
    /\ treeFetched
    /\ ~opts.noCache
    /\ \E e \in readmeRead.cache.tree : e.slug = slugRepo(repos[1]) /\ ~e.ok

\* C19: a cached tree that cannot be parsed counts as a cache miss: the tree
\* is fetched from GitHub and the row is the one the classifier produces
\* when the cache has no tree of the repository
C19_CorruptCacheIsMiss ==
    CorruptTreeRead =>
        /\ \E k \in 1..Len(classifiedCalls) :
               classifiedCalls[k].fn = "fetchRepoTree" /\ classifiedCalls[k].asked
        /\ classifiedRow
             = detectRepo(repos[1], themes, sources, opts, hints,
                          withoutTree(cache0, repos[1]), gh[repos[1]]).row

\* the text has require("foo").setup(...)
hasSetupInvocation(text) == "reqsetup" \in text

\* the text has :colorscheme foo, vim.cmd("colorscheme foo") or
\* vim.cmd.colorscheme("foo")
hasColorschemeActivation(text) == text \cap {"colon", "vimcmd", "vimcmdfn"} # {}

\* the tally of the README that was read, after the tie-break adjustments
textTally == adjustedTally(textOnly.signals)

\* C20: for a README with an explicit setup invocation and a colorscheme
\* activation command, setup's adjusted tally exceeds colorscheme's and the
\* text-only winner is setup
C20_SetupBeatsColorscheme ==
    (/\ pc = "classified"
     /\ readmeRead.threw = NONE
     /\ hasSetupInvocation(readmeRead.text)
     /\ hasColorschemeActivation(readmeRead.text)) =>
        /\ textTally["setup"] > textTally["colorscheme"]
        /\ textOnly.detected = "setup"

\* the tally half of C20 fails although the text shows no load call
C20_SetupTallyBeatsColorscheme ==
    (/\ pc = "classified"
     /\ readmeRead.threw = NONE
     /\ hasSetupInvocation(readmeRead.text)
     /\ hasColorschemeActivation(readmeRead.text)
     /\ ~hasDotLoad(readmeRead.text)) =>
        textTally["setup"] > textTally["colorscheme"]

\* Scenario B: a README without any pattern, a tree with colors/foo.vim only,
\* no hint
ScenarioB ==
    /\ pc = "classified"
    /\ readmeRead.threw = NONE
    /\ readmeRead.text = {}
    /\ treeFetched
    /\ treeRead.threw = NONE
    /\ treeRead.files = {"colorsvim"}
    /\ ~hintsMapHas(hints, repos[1])

DARK_PATTERNS ==
    <<<<"d", "a", "r", "k">>,
      <<"n", "i", "g", "h", "t">>,
      <<"m", "o", "o", "n">>,
      <<"s", "t", "o", "r", "m">>,
      <<"m", "o", "c", "h", "a">>,
      <<"f", "r", "a", "p", "p", "e">>,
      <<"m", "a", "c", "c", "h", "i", "a", "t", "o">>,
      <<"d", "e", "e", "p">>,
      <<"b", "l", "a", "c", "k">>,
      <<"s", "h", "a", "d", "o", "w">>,
      <<"m", "i", "d", "n", "i", "g", "h", "t">>,
      <<"a", "b", "y", "s", "s">>,
      <<"v", "o", "i", "d">>,
      <<"d", "u", "s", "k">>,
      <<"b", "u", "r", "n", "e", "d">>,
      <<"d", "i", "m">>,
      <<"c", "o", "o", "l">>,
      <<"w", "a", "r", "m">>>>

LIGHT_PATTERNS ==
    <<<<"l", "i", "g", "h", "t">>,
      <<"d", "a", "y">>,
      <<"s", "u", "n">>,
      <<"l", "a", "t", "t", "e">>,
      <<"b", "r", "i", "g", "h", "t">>,
      <<"w", "h", "i", "t", "e">>,
      <<"p", "a", "p", "e", "r">>,
      <<"c", "r", "e", "a", "m">>,
      <<"m", "o", "r", "n", "i", "n", "g">>,
      <<"d", "a", "w", "n">>,
      <<"c", "l", "e", "a", "r">>,
      <<"i", "v", "o", "r", "y">>,
      <<"o", "p", "e", "r", "a", "n", "d", "i">>,
      <<"w", "r", "i", "t", "t", "e", "n">>>>

\* s.startsWith(w)
startsWith(s, w) == Len(s) >= Len(w) /\ SubSeq(s, 1, Len(w)) = w

\* /w$/.test(s)
endsWith(s, w) == Len(s) >= Len(w) /\ SubSeq(s, Len(s) - Len(w) + 1, Len(s)) = w

\* /w/.test(s): the pattern without its end anchor
includes(s, w) == \E k \in 1..(Len(s) - Len(w) + 1) : SubSeq(s, k, k + Len(w) - 1) = w

Base16Prefix == <<"b", "a", "s", "e", "1", "6", "-">>

DashLight == <<"-", "l", "i", "g", "h", "t">>

\* /^base16-.+-light$/i
BASE16_LIGHT_PATTERN(name) ==
    LET lower == toLowerCase(name)
    IN /\ startsWith(lower, Base16Prefix)
       /\ endsWith(lower, DashLight)
       /\ Len(lower) >= Len(Base16Prefix) + 1 + Len(DashLight)

\* /^base16-(?!.*-light$).+$/i
BASE16_DARK_PATTERN(name) ==
    LET lower == toLowerCase(name)
        rest == SubSeq(lower, Len(Base16Prefix) + 1, Len(lower))
    IN /\ startsWith(lower, Base16Prefix)
       /\ ~endsWith(rest, DashLight)
       /\ Len(rest) >= 1

\* the same test without the end anchor of the pattern
patternTest_unanchored(lower, w) == includes(lower, w)

\* pattern.test(lower) for one pattern of a list
patternTest(lower, w) == endsWith(lower, w)

\* some pattern of the list matches
anyPattern(lower, patterns) == \E k \in 1..Len(patterns) : patternTest(lower, patterns[k])

detectVariantModeFromName(variantName) ==
    LET lower == toLowerCase(variantName)
    IN IF BASE16_LIGHT_PATTERN(variantName) THEN "light"
       ELSE IF BASE16_DARK_PATTERN(variantName) THEN "dark"
       ELSE IF anyPattern(lower, LIGHT_PATTERNS) THEN "light"
       ELSE IF anyPattern(lower, DARK_PATTERNS) THEN "dark"
       ELSE NONE

\* one VariantModeResult; confidence in hundredths
VariantModeResult(name, mode, confidence, source) ==
    [name |-> name, detectedMode |-> mode, confidence |-> confidence, source |-> source]

detectVariantModesFromNames(variants) ==
    [k \in 1..Len(variants) |->
        LET mode == detectVariantModeFromName(variants[k].name)
        IN IF mode # NONE THEN VariantModeResult(variants[k].name, mode, 90, "pattern")
           ELSE VariantModeResult(variants[k].name, NONE, 0, "unknown")]

\* hints[result.name] is truthy
hasMode(modes, name) == name \in DOMAIN modes /\ modes[name] # ""

applyVariantHints(variantResults, modes) ==
    [k \in 1..Len(variantResults) |->
        IF hasMode(modes, variantResults[k].name)
        THEN VariantModeResult(variantResults[k].name, modes[variantResults[k].name], 100, "hint")
        ELSE variantResults[k]]

\* variant names of the inventory
VariantNames ==
    {<<"l", "i", "g", "h", "t">>,
     <<"d", "a", "r", "k">>,
     <<"m", "o", "o", "n", "l", "i", "g", "h", "t">>,
     <<"l", "i", "g", "h", "t", "-", "d", "a", "r", "k">>,
     <<"d", "a", "r", "k", "-", "l", "i", "g", "h", "t">>,
     <<"l", "i", "g", "h", "t", "n", "i", "n", "g">>,
     <<"n", "i", "g", "h", "t", "o", "w", "l">>,
     <<"x">>,
     <<"D", "a", "y">>,
     <<"D", "A", "R", "K">>,
     <<"b", "a", "s", "e", "1", "6", "-", "x", "-", "l", "i", "g", "h", "t">>,
     <<"b", "a", "s", "e", "1", "6", "-", "x">>,
     <<"b", "a", "s", "e", "1", "6", "-", "l", "i", "g", "h", "t">>,
     <<"b", "a", "s", "e", "1", "6", "-">>,
     <<"B", "a", "s", "e", "1", "6", "-", "d", "a", "y">>}

\* a theme of the inventory with its variants
VariantTheme(name, repo, variants) ==
    [name |-> name, repo |-> repo, colorscheme |-> "cs", variants |-> variants]

Variant(name) == [name |-> name]

\* the variantModes key of a hints.json entry: absent, or a map from variant
\* names to modes
NoModes == [present |-> FALSE, modes |-> <<>>]

Modes(m) == [present |-> TRUE, modes |-> m]

\* a hints.json entry: strategy is NONE when the entry has no such key
ExtendedHint(repo, strategy, variantModes) ==
    [repo |-> repo, strategy |-> strategy, variantModes |-> variantModes]

\* loadVariantHints: variantHintsMap.has(repo)
variantHintsMapHas(hs, repo) ==
    \E k \in 1..Len(hs) : hs[k].repo = repo /\ hs[k].repo # <<>> /\ hs[k].variantModes.present

\* loadVariantHints: variantHintsMap.get(repo), the last entry of a repo wins
variantHintsMapGet(hs, repo) ==
    LET hits == {k \in 1..Len(hs) : hs[k].repo = repo /\ hs[k].variantModes.present}
    IN hs[CHOOSE k \in hits : \A j \in hits : k >= j].variantModes.modes

\* repoThemes.flatMap((t) => t.variants ?? [])
RECURSIVE flatVariants(_)
flatVariants(ths) ==
    IF ths = <<>> THEN <<>> ELSE Head(ths).variants \o flatVariants(Tail(ths))

allVariantsOf(repo, ths) == flatVariants(SelectSeq(ths, LAMBDA t : t.repo = repo))

\* Math.round((withMode / total) * 100)
coverageOf(withMode, total) == (200 * withMode + total) \div (2 * total)

\* a row whose variants field is undefined
NoVariants == [present |-> FALSE, total |-> 0, withMode |-> 0, detected |-> <<>>, coverage |-> 0]

\* detectRepo of generate-registry.mjs, the variants block and the variants
\* field of the row
variantsOf(repo, ths, hs) ==
    LET allVariants == allVariantsOf(repo, ths)
        fromNames == detectVariantModesFromNames(allVariants)
        variantResults == IF variantHintsMapHas(hs, repo)
                          THEN applyVariantHints(fromNames, variantHintsMapGet(hs, repo))
                          ELSE fromNames
        withMode == Cardinality({k \in 1..Len(variantResults) :
                                    variantResults[k].detectedMode # NONE})
    IN IF Len(allVariants) > 0
       THEN [present |-> TRUE, total |-> Len(allVariants), withMode |-> withMode,
             detected |-> variantResults,
             coverage |-> coverageOf(withMode, Len(allVariants))]
       ELSE NoVariants

\* detectRepo of generate-registry.mjs: the row of part_009 with the variants
\* field, which the error row does not have
detectRepoWithVariants(repo, ths, src, o, hs, c, resp) ==
    CHOOSE outcome \in
        {[row |-> base.row, cache |-> base.cache, threw |-> base.threw,
          escaped |-> base.escaped, calls |-> base.calls,
          variants |-> IF base.threw # NONE THEN NoVariants ELSE variantsOf(repo, ths, hs)] :
            base \in {detectRepo(repo, ths, src, o, hs, c, resp)}} : TRUE

MaxVariants == 1

VariantLists ==
    {<<>>} \cup UNION {[1..n -> {Variant(v) : v \in VariantNames}] : n \in 1..MaxVariants}

\* two themes of RepoA around a theme of RepoB
VariantInventories ==
    {<<VariantTheme(<<"a">>, RepoA, v1),
       VariantTheme(<<"b">>, RepoB, <<Variant(<<"d", "a", "r", "k">>)>>),
       VariantTheme(<<"c">>, RepoA, v2)>> :
        v1 \in VariantLists,
        v2 \in {<<>>, <<Variant(<<"l", "i", "g", "h", "t">>)>>, <<Variant(<<"x">>)>>}}

ModesLightning == [n \in {<<"l", "i", "g", "h", "t", "n", "i", "n", "g">>} |-> "light"]

ModesLightIsDark == [n \in {<<"l", "i", "g", "h", "t">>, <<"x">>} |-> "dark"]

ModesPurple == [n \in {<<"x">>} |-> "purple"]

\* no hint; a strategy alone; variant modes alone; both; a mode and a strategy
\* outside the enumerations; variant modes of another repository
VariantHints ==
    {<<>>,
     <<ExtendedHint(RepoA, "setup", NoModes)>>,
     <<ExtendedHint(RepoA, NONE, Modes(ModesLightning))>>,
     <<ExtendedHint(RepoA, NONE, Modes(ModesLightIsDark))>>,
     <<ExtendedHint(RepoA, "load", Modes(ModesLightIsDark))>>,
     <<ExtendedHint(RepoA, "colorscheme", Modes(ModesPurple))>>,
     <<ExtendedHint(RepoA, "bogus", NoModes)>>,
     <<ExtendedHint(RepoB, NONE, Modes(ModesLightIsDark))>>}

VariantResponses ==
    {[readme |-> [kind |-> "ok", text |-> {"reqload"}], tree |-> [kind |-> "fail", files |-> {}]],
     [readme |-> [kind |-> "ok", text |-> {"colon"}], tree |-> [kind |-> "ok", files |-> {"colorsvim"}]],
     [readme |-> [kind |-> "fail", text |-> {}], tree |-> [kind |-> "fail", files |-> {}]]}

InitVariant ==
    /\ pc = "start"
    /\ themes \in VariantInventories
    /\ hints \in VariantHints
    /\ files \in ClassifyFiles
    /\ cache = EmptyCache
    /\ cache0 = cache
    /\ opts = NoOpts
    /\ gh \in [{RepoA} -> VariantResponses]
    /\ sources = loadSources(files)
    /\ repos = <<RepoA>>
    /\ results = <<>> /\ phase = <<>> /\ out = {}
    /\ i = 0 /\ active = 0 /\ done = 0
    /\ rows = <<>> /\ patch = <<>>
    /\ nextSources = EmptySources /\ again = EmptySources
    /\ savePos = 0 /\ prevFiles = files /\ exitCode = NONE /\ logged = <<>> /\ firstPatch = <<>>
    /\ run = 1 /\ snap = NoFiles

\* one call detectRepo(repo, themes, sources, opts, hintsMap, variantHintsMap)
ClassifyWithVariants ==
    /\ pc = "start"
    /\ \E outcome \in {detectRepoWithVariants(repos[1], themes, sources, opts, hints,
                                               cache, gh[repos[1]])} :
          /\ results' = <<outcome>>
          /\ cache' = outcome.cache
    /\ pc' = "classified"
    /\ UNCHANGED <<logged, firstPatch, inputVars, files, sources, repos, phase, out, i, active, done, rows,
                   patch, nextSources, again, savePos, prevFiles, exitCode, run, snap>>

NextVariant == ClassifyWithVariants

SpecVariant == InitVariant /\ [][NextVariant]_vars

\* the variant results of the classified repository
variantResultsOf == results[1].variants.detected

\* the mode the row gives to a variant name
modeOfVariant(k) == variantResultsOf[k].detectedMode

\* the name, lower-cased, has one of the listed words anywhere / at its end
containsAny(name, patterns) ==
    \E k \in 1..Len(patterns) : includes(toLowerCase(name), patterns[k])

endsWithAny(name, patterns) ==
    \E k \in 1..Len(patterns) : endsWith(toLowerCase(name), patterns[k])

matchesFamily(name) == BASE16_LIGHT_PATTERN(name) \/ BASE16_DARK_PATTERN(name)

\* the variants whose mode comes from the name alone
NamedOnly(k) ==
    /\ pc = "classified" /\ results[1].variants.present
    /\ k \in 1..Len(variantResultsOf)
    /\ variantResultsOf[k].source # "hint"
    /\ ~matchesFamily(variantResultsOf[k].name)

\* C22 (as amended): for a variant name that matches neither family pattern,
\* the light words are tried before the dark words and each word is tried at
\* the END of the lower-cased name only: a name ending in a listed light word
\* is light, otherwise a name ending in a listed dark word is dark, and a name
\* ending in no listed word has no mode, wherever else the words occur in it
C22_LightEndingThenDarkEnding ==
    \A k \in 1..(MaxVariants + 1) : NamedOnly(k) =>
        LET name == variantResultsOf[k].name
        IN modeOfVariant(k) = (IF endsWithAny(name, LIGHT_PATTERNS) THEN "light"
                               ELSE IF endsWithAny(name, DARK_PATTERNS) THEN "dark"
                               ELSE NONE)

\* C22 as stated: a name containing a listed light substring is light, also
\* when it contains a listed dark substring, and otherwise a name containing a
\* listed dark substring is dark
C22_LightSubstringThenDarkSubstring ==
    \A k \in 1..(MaxVariants + 1) : NamedOnly(k) =>
        LET name == variantResultsOf[k].name
        IN /\ containsAny(name, LIGHT_PATTERNS) => modeOfVariant(k) = "light"
           /\ (~containsAny(name, LIGHT_PATTERNS) /\ containsAny(name, DARK_PATTERNS))
                  => modeOfVariant(k) = "dark"

\* a name with a light word and a dark word: the one at the end decides
C22_Witness ==
    \E k \in 1..(MaxVariants + 1) :
        /\ NamedOnly(k)
        /\ containsAny(variantResultsOf[k].name, LIGHT_PATTERNS)
        /\ containsAny(variantResultsOf[k].name, DARK_PATTERNS)
        /\ modeOfVariant(k) = "light"

\* the same call of detectRepo with an empty hints.json
unhinted ==
    detectRepoWithVariants(repos[1], themes, sources, opts, <<>>, cache0, gh[repos[1]])

\* the entries of hints.json for the classified repository
hintsOfRepo == SelectSeq(hints, LAMBDA h : h.repo = repos[1])

onlyVariantModes(h) == h.strategy = NONE /\ h.variantModes.present

onlyStrategy(h) == h.strategy # NONE /\ ~h.variantModes.present

\* C23 as stated: a hint entry with variant modes only leaves the computed
\* strategy and confidence of the row as they are without hints, and a hint
\* entry with a strategy only leaves the computed variant modes as they are
\* without hints
C23_HintSupersedesOnlyItsFields ==
    (pc = "classified" /\ hintsOfRepo # <<>>) =>
        /\ (\A k \in 1..Len(hintsOfRepo) : onlyVariantModes(hintsOfRepo[k])) =>
               /\ classifiedRow.detectedStrategy = unhinted.row.detectedStrategy
               /\ classifiedRow.confidence = unhinted.row.confidence
        /\ (\A k \in 1..Len(hintsOfRepo) : onlyStrategy(hintsOfRepo[k])) =>
               results[1].variants = unhinted.variants

\* the second half of C23 alone: a strategy hint leaves the variant modes
C23_StrategyHintKeepsVariantModes ==
    (pc = "classified" /\ hintsOfRepo # <<>>
       /\ \A k \in 1..Len(hintsOfRepo) : onlyStrategy(hintsOfRepo[k])) =>
        results[1].variants = unhinted.variants

\* type ThemeMode = "dark" | "light"
ThemeModes == {"dark", "light"}

\* C24 as stated: the category of a row is one of setup, load, colorscheme,
\* file, unknown and every variant mode is light, dark or undefined, also when
\* the hint of the repository names a strategy or a mode outside these sets
C24_ClosedEnumerations ==
    (pc = "classified" /\ \A k \in 1..Len(hintsOfRepo) : hintsOfRepo[k].strategy # NONE) =>
        /\ classifiedRow.detectedStrategy \in StrategyTypes
        /\ \A k \in 1..Len(variantResultsOf) : modeOfVariant(k) \in ThemeModes \cup {NONE}

\* ------------------------------------------------------------------------
\* main restricted by --theme or --repo (part_009, lines 687-728)
\* ------------------------------------------------------------------------

\* themes.find((t) => t.name === name): the index of the theme, 0 if none
findThemeByName(ths, name) ==
    LET hits == {k \in 1..Len(ths) : ths[k].name = name}
    IN IF hits = {} THEN 0 ELSE CHOOSE k \in hits : \A j \in hits : k <= j

\* log(msg, "error")
LogError(msg) == [level |-> "error", msg |-> msg]

\* repos.filter((r) => r === opts.repo) when --repo is given
filterRepo(keys, o) == IF o.repo # NONE THEN SelectSeq(keys, LAMBDA r : r = o.repo) ELSE keys

SingleOpts ==
    [apply : {FALSE}, noCache : {FALSE},
     theme : {NONE, <<"a">>, <<"b">>, <<"z">>},
     repo : {NONE, RepoA, RepoC}]

SingleResponses ==
    {PoolResponse,
     [readme |-> [kind |-> "fail", text |-> {}], tree |-> [kind |-> "fail", files |-> {}]]}

InitSingle ==
    /\ pc = "start"
    /\ themes \in MainInventories
    /\ hints = <<>>
    /\ files = NoFiles
    /\ cache = EmptyCache
    /\ cache0 = cache
    /\ opts \in SingleOpts
    /\ gh \in [Range(selectRepos(themes)) -> SingleResponses]
    /\ sources = EmptySources /\ rows = <<>> /\ patch = <<>>
    /\ nextSources = EmptySources /\ again = EmptySources
    /\ savePos = 0 /\ prevFiles = files /\ exitCode = NONE /\ logged = <<>> /\ firstPatch = <<>>
    /\ run = 1 /\ snap = NoFiles
    /\ IdlePool

\* main, lines 687-692: --theme names no theme of the inventory
ThemeNotFound ==
    /\ pc = "start" /\ opts.theme # NONE
    /\ findThemeByName(themes, opts.theme) = 0
    /\ sources' = loadSources(files)
    /\ logged' = Append(logged, LogError("Theme not found"))
    /\ exitCode' = 1
    /\ pc' = "exited"
    /\ UNCHANGED <<inputVars, files, cache, poolVars, rows, patch, nextSources, again,
                   savePos, prevFiles, firstPatch, run, snap>>

\* main, lines 693-696: the theme named by --theme has no repo
ThemeWithoutRepo ==
    /\ pc = "start" /\ opts.theme # NONE
    /\ findThemeByName(themes, opts.theme) # 0
    /\ themes[findThemeByName(themes, opts.theme)].repo = NOSTR
    /\ sources' = loadSources(files)
    /\ logged' = Append(logged, LogError("Theme has no repo"))
    /\ exitCode' = 1
    /\ pc' = "exited"
    /\ UNCHANGED <<inputVars, files, cache, poolVars, rows, patch, nextSources, again,
                   savePos, prevFiles, firstPatch, run, snap>>

\* main, lines 698-722: the repository of the theme is classified, its row
\* written to detection.json, and main returns
DetectTheme ==
    /\ pc = "start" /\ opts.theme # NONE
    /\ findThemeByName(themes, opts.theme) # 0
    /\ themes[findThemeByName(themes, opts.theme)].repo # NOSTR
    /\ sources' = loadSources(files)
    /\ \E repo \in {themes[findThemeByName(themes, opts.theme)].repo} :
         \E outcome \in {detectRepo(repo, themes, loadSources(files), opts, hints, cache,
                                    gh[repo])} :
            /\ rows' = <<outcome.row>>
            /\ cache' = outcome.cache
            /\ logged' = IF outcome.row.status = "error"
                         THEN Append(logged, LogError(outcome.row.error))
                         ELSE logged
    /\ exitCode' = 0
    /\ pc' = "done"
    /\ UNCHANGED <<inputVars, files, poolVars, patch, nextSources, again,
                   savePos, prevFiles, firstPatch, run, snap>>

\* main, lines 724-735 without --theme: the repositories are selected,
\* filtered by --repo, and handed to limit
MainStartRepo ==
    /\ pc = "start" /\ opts.theme = NONE
    /\ sources' = loadSources(files)
    /\ repos' = filterRepo(selectRepos(themes), opts)
    /\ results' = <<>> /\ phase' = <<>> /\ out' = {}
    /\ i' = 0 /\ active' = 0 /\ done' = 0
    /\ pc' = "pool"
    /\ UNCHANGED <<logged, firstPatch, inputVars, files, cache, rows, patch, nextSources, again,
                   savePos, prevFiles, exitCode, run, snap>>

NextSingle ==
    \/ ThemeNotFound
    \/ ThemeWithoutRepo
    \/ DetectTheme
    \/ MainStartRepo
    \/ LimitNext
    \/ \E idx \in 1..Len(phase) : TaskThen(idx)
    \/ \E idx \in 1..Len(phase) : TaskFinally(idx)
    \/ Report
    \/ Finish

SpecSingle == InitSingle /\ [][NextSingle]_vars

\* the run has ended: main returned or the process exited
Ended == pc \in {"done", "exited"}

\* --theme names a theme that is not in the inventory or has no repository
themeUnresolved ==
    /\ opts.theme # NONE
    /\ \/ findThemeByName(themes, opts.theme) = 0
       \/ themes[findThemeByName(themes, opts.theme)].repo = NOSTR

\* --repo (without --theme) names a repository that no theme of the inventory has
repoUnresolved ==
    /\ opts.theme = NONE /\ opts.repo # NONE
    /\ \A k \in 1..Len(themes) : themes[k].repo # opts.repo

\* C25 as stated: a run restricted to one theme or one repository that the
\* inventory cannot resolve ends with a nonzero exit code and a logged error
C25_UnresolvedExitsNonzero ==
    (Ended /\ (themeUnresolved \/ repoUnresolved)) =>
        /\ exitCode # 0
        /\ logged # <<>>

\* the --theme half of C25 alone
C25_UnresolvedThemeExitsNonzero ==
    (Ended /\ themeUnresolved) => (exitCode = 1 /\ logged # <<>>)

\* the row names a strategy with a confidence below the threshold of buildPatch
Unconfident(r) == r.detectedStrategy # "unknown" /\ r.confidence < APPLY_THRESHOLD

rawTextTally == [s \in StrategyTypes |-> Tally(textOnly.signals, s)]

\* load precedes setup in ranked: the sort is stable and setup is the earlier
\* key, so load needs the strictly larger adjusted tally
loadOutranksSetup == textTally["load"] > textTally["setup"]

\* C27: whenever the README gives load and setup both a nonzero tally, load
\* outranks setup in the text-only ranking
C27_LoadOutranksSetup ==
    (/\ pc = "classified"
     /\ readmeRead.threw = NONE
     /\ rawTextTally["load"] > 0
     /\ rawTextTally["setup"] > 0) => loadOutranksSetup

\* what the first tie-break does give: load outranks setup when its tally is
\* not below setup's
C27_LoadOutranksSetupWhenNotBelow ==
    (/\ pc = "classified"
     /\ readmeRead.threw = NONE
     /\ rawTextTally["setup"] > 0
     /\ rawTextTally["load"] >= rawTextTally["setup"]) => loadOutranksSetup

\* the tasks whose then callback has run
Written == {k \in 1..Len(phase) : phase[k] \in {"then", "settled"}}

\* C28: every item is started once, in input order, and the then callback of
\* task k writes its result to slot k and to no other: a written slot holds
\* the row of its own input, no slot has two values, and when limit resolves
\* position k of out holds the row of input k
C28_OwnSlotOnly ==
    /\ Len(results) = i /\ Len(phase) = i /\ i <= Len(repos)
    /\ \A k \in 1..Len(results) : results[k].row.repo = repos[k]
    /\ {e.idx : e \in out} = Written
    /\ \A e \in out : e.row = results[e.idx].row
    /\ Cardinality(out) = Cardinality(Written)
    /\ pc \in {"collected", "reported"} =>
          /\ i = Len(repos)
          /\ Len(outArray(out)) = Len(repos)
          /\ \A k \in 1..Len(repos) : outArray(out)[k].repo = repos[k]

\* a later task has written its slot while an earlier one has not
C28_Witness ==
    /\ pc = "running"
    /\ \E e \in out : \E k \in 1..(e.idx - 1) : phase[k] = "resolved"
    /\ i = Len(repos) /\ Len(repos) > CONCURRENCY

\* ------------------------------------------------------------------------
\* Two batch runs with --apply over the same inventory, hints and cache
\* ------------------------------------------------------------------------

\* a sources directory with an overrides.json and no strategy file
OverridesOnly ==
    [NoFiles EXCEPT !["overrides"] =
        [exists |-> TRUE, strategy |-> NONE, count |-> 0,
         themes |-> <<Entry(<<"a">>, RepoA, "csA", TRUE, TRUE, "setup", "m")>>,
         builtin |-> <<>>]]

RerunFiles == MainFiles \cup {OverridesOnly}

RerunInventories == {<<ThemeA>>, <<ThemeB, ThemeA>>}

InitRerun ==
    /\ pc = "start"
    /\ themes \in RerunInventories
    /\ hints \in MainHints
    /\ files \in RerunFiles
    /\ cache = EmptyCache
    /\ cache0 = cache
    /\ opts = [apply |-> TRUE, noCache |-> FALSE]
    /\ gh \in [Range(selectRepos(themes)) -> MainResponses]
    /\ sources = EmptySources /\ rows = <<>> /\ patch = <<>>
    /\ nextSources = EmptySources /\ again = EmptySources
    /\ savePos = 0 /\ prevFiles = files /\ exitCode = NONE /\ logged = <<>> /\ firstPatch = <<>>
    /\ run = 1 /\ snap = NoFiles
    /\ IdlePool

\* the next invocation of the script: same index.json, hints.json and cache
\* directory, the sources directory as the first run left it
Rerun ==
    /\ pc = "done"
    /\ run < MaxRuns
    /\ run' = run + 1
    /\ firstPatch' = patch
    /\ snap' = files
    /\ cache0' = cache
    /\ exitCode' = NONE
    /\ pc' = "start"
    /\ UNCHANGED <<logged, themes, hints, opts, gh, files, cache, sources, poolVars, rows, patch,
                   nextSources, again, savePos, prevFiles>>

NextRerun ==
    \/ MainStart
    \/ LimitNext
    \/ \E idx \in 1..Len(phase) : TaskThen(idx)
    \/ \E idx \in 1..Len(phase) : TaskFinally(idx)
    \/ Report
    \/ ApplyStart
    \/ SaveFile
    \/ Finish
    \/ Rerun

SpecRerun == InitRerun /\ [][NextRerun]_vars

\* the row of a repository in the report
rowOf(repo) == rows[CHOOSE k \in 1..Len(rows) : rows[k].repo = repo]

\* C29: when a run with --apply has completed, the report of the run that
\* follows it over the same inventory, hints and cache has an empty patch,
\* and every repository the first run patched has status match
C29_SecondRunPatchesNothing ==
    (run = 2 /\ pc = "reported") =>
        /\ patch = <<>>
        /\ \A k \in 1..Len(firstPatch) : rowOf(firstPatch[k].repo).status = "match"

\* the same without an overrides.json in the sources directory
C29_SecondRunPatchesNothingFromStrategyFiles ==
    (run = 2 /\ pc = "reported" /\ ~files["overrides"].exists) =>
        /\ patch = <<>>
        /\ \A k \in 1..Len(firstPatch) : rowOf(firstPatch[k].repo).status = "match"

\* ------------------------------------------------------------------------
\* A batch run over two repositories with an empty cache: the cache files
\* the two classifications share
\* ------------------------------------------------------------------------

\* identities of the inventory: owner/name, an owner or a name with an
\* underscore, and one without a slash
SlugRepos ==
    {RepoA, RepoB,
     <<"a", "/", "_", "b">>, <<"a", "_", "/", "b">>,
     <<"a", "/", "b">>, <<"a", "_", "_", "b">>}

SlugInventories ==
    {<<Theme(<<"a">>, r[1], "cs1"), Theme(<<"b">>, r[2], "cs2")>> :
        r \in {q \in SlugRepos \X SlugRepos : q[1] # q[2]}}

\* a decisive README, and an indecisive one with a tree
SlugResponses ==
    {[readme |-> [kind |-> "ok", text |-> {"reqload"}], tree |-> [kind |-> "fail", files |-> {}]],
     [readme |-> [kind |-> "ok", text |-> {"colon"}], tree |-> [kind |-> "ok", files |-> {"colorsvim"}]]}

InitSlug ==
    /\ pc = "start"
    /\ themes \in SlugInventories
    /\ hints = <<>>
    /\ files = NoFiles
    /\ cache = EmptyCache
    /\ cache0 = cache
    /\ opts = NoOpts
    /\ gh \in [Range(selectRepos(themes)) -> SlugResponses]
    /\ sources = EmptySources /\ rows = <<>> /\ patch = <<>>
    /\ nextSources = EmptySources /\ again = EmptySources
    /\ savePos = 0 /\ prevFiles = files /\ exitCode = NONE /\ logged = <<>> /\ firstPatch = <<>>
    /\ run = 1 /\ snap = NoFiles
    /\ IdlePool

NextSlug ==
    \/ MainStart
    \/ LimitNext
    \/ \E idx \in 1..Len(phase) : TaskThen(idx)
    \/ \E idx \in 1..Len(phase) : TaskFinally(idx)
    \/ Report

SpecSlug == InitSlug /\ [][NextSlug]_vars

\* the row of task k had it been classified alone, from GitHub's answers for
\* its own repository
ownRow(k) ==
    detectRepo(repos[k], themes, sources, opts, hints, EmptyCache, gh[repos[k]]).row

\* task k read the README from the cache
readmeHit(k) == ~results[k].calls[1].asked

\* C30: two distinct repositories of a run never have the same cache file
\* name, and a classification that read the cache has the row that the
\* evidence of its own repository gives
C30_DistinctReposDistinctEntries ==
    /\ \A j, k \in 1..Len(repos) : repos[j] # repos[k] => slugRepo(repos[j]) # slugRepo(repos[k])
    /\ \A k \in 1..Len(results) : readmeHit(k) => results[k].row = ownRow(k)

\* the same for identities owner/name whose owner has no underscore
ownerOf(repo) == SubSeq(repo, 1, (CHOOSE k \in 1..Len(repo) : repo[k] = "/" /\ \A j \in 1..(k - 1) : repo[j] # "/") - 1)

wellFormed(repo) ==
    /\ \E k \in 1..Len(repo) : repo[k] = "/"
    /\ \A k \in 1..Len(ownerOf(repo)) : ownerOf(repo)[k] # "_"

C30_WellFormedReposDistinctEntries ==
    (\A k \in 1..Len(repos) : wellFormed(repos[k])) =>
        /\ \A j, k \in 1..Len(repos) :
              repos[j] # repos[k] => slugRepo(repos[j]) # slugRepo(repos[k])
        /\ \A k \in 1..Len(results) : readmeHit(k) => results[k].row = ownRow(k)

\* the second half of C30 alone: a classification that read the cache has
\* the row of its own repository's evidence
C30_HitReturnsOwnEvidence ==
    \A k \in 1..Len(results) : readmeHit(k) => results[k].row = ownRow(k)

====
